---------------------------- MODULE Spec2Model ----------------------------
(***************************************************************************)
(* Billing-cycle engine of future_budget_simulator: the purchase records   *)
(* (CreditEstimate), the card policies (MonthlyPlanDefault), the           *)
(* closing-day arithmetic, the split-payment allocator and the bonus       *)
(* window classifier, as implemented by budget_app/forms.py and            *)
(* budget_app/views.py.                                                    *)
(*                                                                         *)
(* Encodings.  A 'YYYY-MM' key is the integer YYYY*100+MM (FormatYM), read *)
(* back with ParseYear / ParseMonth as the code does with                  *)
(* map(int, s.split('-')); 0 stands for None / ''.  A date is the tuple    *)
(* <<year, month, day>>, None is NoDate.  None for split_payment_part and  *)
(* split_payment_group is 0; a missing amount is NoAmount.                 *)
(***************************************************************************)
EXTENDS Integers, Sequences, FiniteSets, TLC

VARIABLES
    cards,       \* MonthlyPlanDefault rows by key: the card policy registry
    estimates,   \* CreditEstimate table: pk -> row
    nextPk,      \* next auto-increment primary key of CreditEstimate
    nextGroup,   \* next fresh split_payment_group identifier (uuid4)
    requests,    \* number of requests handled so far
    last,        \* the last request handled and its outcome
    probe,       \* the last pure-function application: inputs and output
    templates,   \* CreditDefault table: id -> row (recurring charge templates)
    overrides,   \* DefaultChargeOverride table: pk -> row (monthly snapshots)
    nextOverridePk, \* next auto-increment primary key of DefaultChargeOverride
    plans,       \* MonthlyPlan table: year_month -> items (key -> amount)
    renders,     \* per worker: the credit_estimate_list request in progress
    today        \* timezone.now().date()

snapVars == <<templates, overrides, nextOverridePk, plans, renders, today>>

vars == <<cards, estimates, nextPk, nextGroup, requests, last, probe,
          templates, overrides, nextOverridePk, plans, renders, today>>

-----------------------------------------------------------------------------
(* Bounds of the model *)

MaxRequests == 3    \* at most this many purchase requests are handled
MaxTotal == 450     \* split totals 0..MaxTotal are enumerated exhaustively

NoDate == <<>>
NoAmount == -1

-----------------------------------------------------------------------------
(* Calendar helpers *)

FormatYM(year, month) == year * 100 + month
ParseYear(ym) == ym \div 100
ParseMonth(ym) == ym % 100

IsLeap(year) == (year % 4 = 0) /\ ((year % 100 # 0) \/ (year % 400 = 0))

DaysInMonth(year, month) ==
    IF month = 2 THEN (IF IsLeap(year) THEN 29 ELSE 28)
    ELSE IF month \in {4, 6, 9, 11} THEN 30 ELSE 31

Strftime(d) == FormatYM(d[1], d[2])

\* min(day, calendar.monthrange(year, month)[1])
ClampDay(year, month, day) ==
    IF day > DaysInMonth(year, month) THEN DaysInMonth(year, month) ELSE day

-----------------------------------------------------------------------------
(* Card policy registry *)

NoCard == [is_active |-> FALSE, is_end_of_month |-> FALSE, closing_day |-> 0]

PolicyEndOfMonth == [is_active |-> TRUE, is_end_of_month |-> TRUE, closing_day |-> 0]
PolicyDay(n) == [is_active |-> TRUE, is_end_of_month |-> FALSE, closing_day |-> n]
PolicyInactive == [is_active |-> FALSE, is_end_of_month |-> FALSE, closing_day |-> 15]

ViewCard == "item_6"
OtherCard == "item_7"
CardKeys == {ViewCard, OtherCard}

CardConfigs ==
    { (ViewCard :> PolicyDay(5)) @@ (OtherCard :> PolicyEndOfMonth),
      (ViewCard :> PolicyEndOfMonth) @@ (OtherCard :> PolicyDay(10)),
      (ViewCard :> PolicyDay(5)) @@ (OtherCard :> PolicyInactive),
      (ViewCard :> PolicyDay(31)) @@ (OtherCard :> PolicyDay(30)) }

\* MonthlyPlanDefault.objects.filter(key=card_type, is_active=True).first()
HasCardDefault(card_type) ==
    card_type \in DOMAIN cards /\ cards[card_type].is_active

CardDefault(card_type) ==
    IF HasCardDefault(card_type) THEN cards[card_type] ELSE NoCard

-----------------------------------------------------------------------------
(* Billing cycle calculator *)

RECURSIVE RollOver(_, _)
RollOver(billing_year, billing_month) ==
    IF billing_month > 12
    THEN RollOver(billing_year + 1, billing_month - 12)
    ELSE FormatYM(billing_year, billing_month)

BaseOffset(card_type) ==
    IF HasCardDefault(card_type)
    THEN (IF CardDefault(card_type).is_end_of_month THEN 1 ELSE 2)
    ELSE 1

\* A variant that forgets the extra month of the second installment.
calculate_billing_month_no_split(usage_month, card_type, split_part) ==
    RollOver(ParseYear(usage_month), ParseMonth(usage_month) + BaseOffset(card_type))

calculate_billing_month(usage_month, card_type, split_part) ==
    LET year == ParseYear(usage_month)
        month == ParseMonth(usage_month)
        billing_month == month + BaseOffset(card_type)
                         + (IF split_part = 2 THEN 1 ELSE 0)
    IN  RollOver(year, billing_month)

-----------------------------------------------------------------------------
(* Usage month and billing month derived from the purchase date            *)
(* (CreditEstimateForm.save, first block)                                  *)

NextMonthOf(year, month) ==
    IF month + 1 > 12 THEN <<year + 1, 1>> ELSE <<year, month + 1>>

PrevMonthOf(year, month) ==
    IF month - 1 < 1 THEN <<year - 1, 12>> ELSE <<year, month - 1>>

\* closing_day as the code derives it: 31 for month-end, the configured day
\* otherwise, 0 (None) when the item has no closing day
ClosingDayOf(card_default) ==
    IF card_default.is_end_of_month THEN 31
    ELSE IF card_default.closing_day # 0 THEN card_default.closing_day
    ELSE 0

\* A variant whose comparison excludes the closing day itself.
ClosingMonthOfStrict(purchase_date, closing_day) ==
    IF purchase_date[3] < closing_day
    THEN <<purchase_date[1], purchase_date[2]>>
    ELSE NextMonthOf(purchase_date[1], purchase_date[2])

\* the month whose closing day takes the purchase in (day-of-month closing)
ClosingMonthOf(purchase_date, closing_day) ==
    IF purchase_date[3] <= closing_day
    THEN <<purchase_date[1], purchase_date[2]>>
    ELSE NextMonthOf(purchase_date[1], purchase_date[2])

\* A variant that keeps the purchase month as the usage month on every card.
PurchaseMonthsPlain(purchase_date, card_type) ==
    <<Strftime(purchase_date),
      FormatYM(NextMonthOf(purchase_date[1], purchase_date[2])[1],
               NextMonthOf(purchase_date[1], purchase_date[2])[2])>>

\* <<year_month, billing_month>> set by the purchase-date block
PurchaseMonths(purchase_date, card_type) ==
    LET y == purchase_date[1]
        m == purchase_date[2]
        plain == <<Strftime(purchase_date),
                   FormatYM(NextMonthOf(y, m)[1], NextMonthOf(y, m)[2])>>
    IN  IF ~HasCardDefault(card_type) THEN plain
        ELSE LET card_default == CardDefault(card_type)
                 closing_day == ClosingDayOf(card_default)
             IN  IF closing_day = 0 THEN plain
                 ELSE IF card_default.is_end_of_month THEN plain
                 ELSE LET closing == ClosingMonthOf(purchase_date, closing_day)
                          usage == PrevMonthOf(closing[1], closing[2])
                          billing == NextMonthOf(closing[1], closing[2])
                      IN  <<FormatYM(usage[1], usage[2]),
                            FormatYM(billing[1], billing[2])>>

\* A variant that closes a day-of-month card inside the usage month itself.
closing_date_same_month(year_month, card_type) ==
    IF HasCardDefault(card_type) /\ ~CardDefault(card_type).is_end_of_month
       /\ CardDefault(card_type).closing_day # 0
    THEN <<ParseYear(year_month), ParseMonth(year_month), CardDefault(card_type).closing_day>>
    ELSE <<ParseYear(year_month), ParseMonth(year_month),
           DaysInMonth(ParseYear(year_month), ParseMonth(year_month))>>

\* the closing date of a usage month as the purchase list computes it
closing_date(year_month, card_type) ==
    LET year == ParseYear(year_month)
        month == ParseMonth(year_month)
        month_end == <<year, month, DaysInMonth(year, month)>>
        card_default == CardDefault(card_type)
    IN  IF HasCardDefault(card_type)
        THEN IF card_default.is_end_of_month THEN month_end
             ELSE IF card_default.closing_day # 0
                  THEN <<NextMonthOf(year, month)[1], NextMonthOf(year, month)[2],
                         card_default.closing_day>>
             ELSE month_end
        ELSE month_end

-----------------------------------------------------------------------------
(* Bonus-window classifier *)

InBonusGap(month, day) ==
    \/ (month = 6 /\ day >= 6)
    \/ (month = 7 /\ day <= 5)
    \/ (month = 11 /\ day >= 6)
    \/ (month = 12 /\ day <= 5)

\* A variant whose first gap starts one day late.
get_bonus_due_date_late_gap(purchase_date) ==
    LET year == purchase_date[1]
        month == purchase_date[2]
        day == purchase_date[3]
    IN  IF \/ (month = 6 /\ day >= 7) \/ (month = 7 /\ day <= 5)
           \/ (month = 11 /\ day >= 6) \/ (month = 12 /\ day <= 5)
        THEN NoDate
        ELSE IF month = 12 THEN <<year + 1, 8, 4>>
        ELSE IF month <= 6 THEN <<year, 8, 4>>
        ELSE <<year + 1, 1, 4>>

get_bonus_due_date_from_purchase(purchase_date) ==
    LET year == purchase_date[1]
        month == purchase_date[2]
        day == purchase_date[3]
    IN  IF purchase_date = NoDate THEN NoDate
        ELSE IF InBonusGap(month, day) THEN NoDate
        ELSE IF month = 12 /\ day >= 6 THEN <<year + 1, 8, 4>>
        ELSE IF 1 <= month /\ month <= 5 THEN <<year, 8, 4>>
        ELSE IF month = 6 /\ day <= 5 THEN <<year, 8, 4>>
        ELSE IF month = 7 /\ day >= 6 THEN <<year + 1, 1, 4>>
        ELSE IF 8 <= month /\ month <= 10 THEN <<year + 1, 1, 4>>
        ELSE IF month = 11 /\ day <= 5 THEN <<year + 1, 1, 4>>
        ELSE NoDate

\* the billing month 'YYYY-MM' of a bonus purchase, None (0) in the two gaps
get_bonus_month_from_date(purchase_date) ==
    LET year == purchase_date[1]
        month == purchase_date[2]
        day == purchase_date[3]
    IN  IF purchase_date = NoDate THEN 0
        ELSE IF month = 6 /\ day >= 6 THEN 0
        ELSE IF month = 7 /\ day <= 5 THEN 0
        ELSE IF month = 11 /\ day >= 6 THEN 0
        ELSE IF month = 12 /\ day <= 5 THEN 0
        ELSE IF month = 12 /\ day >= 6 THEN FormatYM(year + 1, 8)
        ELSE IF 1 <= month /\ month <= 5 THEN FormatYM(year, 8)
        ELSE IF month = 6 /\ day <= 5 THEN FormatYM(year, 8)
        ELSE IF month = 7 /\ day >= 6 THEN FormatYM(year + 1, 1)
        ELSE IF 8 <= month /\ month <= 10 THEN FormatYM(year + 1, 1)
        ELSE IF month = 11 /\ day <= 5 THEN FormatYM(year + 1, 1)
        ELSE 0

get_next_bonus_month(year_month) ==
    LET year == ParseYear(year_month)
        month == ParseMonth(year_month)
    IN  IF year_month = 0 THEN year_month
        ELSE IF month = 12 THEN FormatYM(year + 1, 8)
        ELSE IF 1 <= month /\ month <= 5 THEN FormatYM(year, 8)
        ELSE IF month = 6 THEN FormatYM(year, 8)
        ELSE FormatYM(year + 1, 1)

-----------------------------------------------------------------------------
(* Split-payment allocator *)

\* A variant that rounds the second installment to the nearest 100.
SplitSecondRounded(total_amount) == ((((total_amount \div 2) + 50) \div 100)) * 100

SplitSecond(total_amount) == ((total_amount \div 2) \div 100) * 100

SplitFirst(total_amount) == total_amount - SplitSecond(total_amount)

-----------------------------------------------------------------------------
(* The CreditEstimate table.  A "world" w is the record                    *)
(* [estimates, nextPk, nextGroup] that a request reads and writes.         *)

NewInstance ==
    [pk |-> 0, year_month |-> 0, billing_month |-> 0, card_type |-> "",
     amount |-> NoAmount, purchase_date |-> NoDate, due_date |-> NoDate,
     is_split_payment |-> FALSE, is_bonus_payment |-> FALSE,
     split_payment_part |-> 0, split_payment_group |-> 0]

\* CreditEstimate.objects.create(...), and Model.save() of an unsaved row
Insert(w, row) ==
    [w EXCEPT !.estimates = (w.nextPk :> [row EXCEPT !.pk = w.nextPk]) @@ w.estimates,
              !.nextPk = w.nextPk + 1]

\* Model.save(): INSERT when the instance has no pk, UPDATE of its row otherwise
ModelSave(w, row) ==
    IF row.pk = 0 THEN Insert(w, row)
    ELSE [w EXCEPT !.estimates = (row.pk :> row) @@ w.estimates]

\* the instance as it is after Model.save(): a new row has received its pk
Saved(w, row) == IF row.pk = 0 THEN [row EXCEPT !.pk = w.nextPk] ELSE row

\* queryset.delete()
DeleteRows(w, pks) ==
    [w EXCEPT !.estimates = [k \in (DOMAIN w.estimates) \ pks |-> w.estimates[k]]]

\* filter(split_payment_group=g)
GroupPks(w, g) ==
    {k \in DOMAIN w.estimates : w.estimates[k].split_payment_group = g}

\* filter(split_payment_group=g, split_payment_part=part)
PartPks(w, g, part) ==
    {k \in GroupPks(w, g) : w.estimates[k].split_payment_part = part}

\* queryset.first() under Meta.ordering (year_month, then newest first)
FirstPk(w, pks) ==
    CHOOSE k \in pks : \A j \in pks \ {k} :
        \/ w.estimates[k].year_month < w.estimates[j].year_month
        \/ /\ w.estimates[k].year_month = w.estimates[j].year_month
           /\ k > j

RECURSIVE SumAmounts(_, _)
SumAmounts(w, pks) ==
    IF pks = {} THEN 0
    ELSE LET k == CHOOSE x \in pks : TRUE
         IN  w.estimates[k].amount + SumAmounts(w, pks \ {k})

-----------------------------------------------------------------------------
(* CreditEstimateForm.save(commit)                                         *)
(* Every stage takes the world and the form's instance and returns them as *)
(* the stage leaves them.                                                  *)

\* purchase_date -> year_month, billing_month
PurchaseBlock(i) ==
    IF i.purchase_date # NoDate
    THEN LET pm == PurchaseMonths(i.purchase_date, i.card_type)
         IN  [i EXCEPT !.year_month = pm[1], !.billing_month = pm[2]]
    ELSE i

\* A variant that leaves the billing month of a bonus purchase as the
\* purchase-date block computed it.
BonusBlockKeepBilling(w, i) ==
    IF i.is_bonus_payment /\ i.purchase_date # NoDate
    THEN [i EXCEPT !.year_month = Strftime(i.purchase_date),
                   !.due_date = get_bonus_due_date_from_purchase(i.purchase_date)]
    ELSE i

\* bonus payment: usage month, payment date, billing month; or the switch
\* from bonus back to a normal payment
BonusBlock(w, i) ==
    IF i.is_bonus_payment
    THEN IF i.purchase_date # NoDate
         THEN LET calculated_due_date == get_bonus_due_date_from_purchase(i.purchase_date)
                  i1 == [i EXCEPT !.year_month = Strftime(i.purchase_date)]
              IN  IF calculated_due_date # NoDate
                  THEN [i1 EXCEPT !.due_date = calculated_due_date,
                                  !.billing_month = Strftime(calculated_due_date)]
                  ELSE i1
         ELSE LET ym == get_next_bonus_month(i.year_month)
              IN  [i EXCEPT !.year_month = ym, !.billing_month = ym]
    ELSE IF i.pk # 0 /\ i.pk \in DOMAIN w.estimates
            /\ w.estimates[i.pk].is_bonus_payment
         THEN LET original == w.estimates[i.pk]
              IN  [i EXCEPT !.due_date = IF original.purchase_date # NoDate
                                         THEN original.purchase_date ELSE @,
                            !.purchase_date = NoDate]
         ELSE i

\* new split payment: the instance becomes part 1, part 2 is created
SplitNew(w, i, commit) ==
    LET total_amount == i.amount
        second_payment == SplitSecond(total_amount)
        first_payment == total_amount - second_payment
        group_id == w.nextGroup
        i1 == [i EXCEPT !.amount = first_payment,
                        !.split_payment_part = 1,
                        !.split_payment_group = group_id,
                        !.billing_month =
                            IF ~i.is_bonus_payment
                            THEN calculate_billing_month(i.year_month, i.card_type, 1)
                            ELSE @]
        w1 == IF commit THEN ModelSave(w, i1) ELSE w
        i2 == IF commit THEN Saved(w, i1) ELSE i1
        second == [NewInstance EXCEPT
                     !.year_month = i2.year_month,
                     !.billing_month = calculate_billing_month(i2.year_month, i2.card_type, 2),
                     !.card_type = i2.card_type,
                     !.amount = second_payment,
                     !.purchase_date = i2.purchase_date,
                     !.due_date = i2.due_date,
                     !.is_split_payment = TRUE,
                     !.split_payment_part = 2,
                     !.split_payment_group = group_id]
        w2 == Insert([w1 EXCEPT !.nextGroup = w1.nextGroup + 1], second)
    IN  [w |-> w2, instance |-> i2, ret |-> i2, returned |-> FALSE]

\* A variant that leaves part 2 as it was.
SplitEditFirstStale(w, i) ==
    [w |-> w,
     instance |-> [i EXCEPT !.amount = i.amount - SplitSecond(i.amount)],
     ret |-> [i EXCEPT !.amount = i.amount - SplitSecond(i.amount)],
     returned |-> FALSE]

\* edit of part 1 of an existing pair: part 2 follows
SplitEditFirst(w, i) ==
    LET total_amount == i.amount
        second_payment_amount == SplitSecond(total_amount)
        first_payment_amount == total_amount - second_payment_amount
        i1 == [i EXCEPT !.amount = first_payment_amount,
                        !.billing_month =
                            IF ~i.is_bonus_payment
                            THEN calculate_billing_month(i.year_month, i.card_type, 1)
                            ELSE @]
        seconds == PartPks(w, i.split_payment_group, 2)
        w1 == IF seconds # {}
              THEN LET k == FirstPk(w, seconds)
                   IN  ModelSave(w, [w.estimates[k] EXCEPT
                          !.year_month = i1.year_month,
                          !.card_type = i1.card_type,
                          !.amount = second_payment_amount,
                          !.purchase_date = i1.purchase_date,
                          !.due_date = i1.due_date,
                          !.billing_month =
                              calculate_billing_month(i1.year_month, i1.card_type, 2)])
              ELSE w
    IN  [w |-> w1, instance |-> i1, ret |-> i1, returned |-> FALSE]

\* edit of part 2 of an existing pair: only part 1's amount follows
SplitEditSecond(w, i) ==
    LET total_amount == i.amount
        second_payment_amount == SplitSecond(total_amount)
        first_payment_amount == total_amount - second_payment_amount
        i1 == [i EXCEPT !.amount = second_payment_amount,
                        !.billing_month =
                            IF ~i.is_bonus_payment
                            THEN calculate_billing_month(i.year_month, i.card_type, 2)
                            ELSE @]
        firsts == PartPks(w, i.split_payment_group, 1)
        w1 == IF firsts # {}
              THEN LET k == FirstPk(w, firsts)
                   IN  ModelSave(w, [w.estimates[k] EXCEPT !.amount = first_payment_amount])
              ELSE w
    IN  [w |-> w1, instance |-> i1, ret |-> i1, returned |-> FALSE]

\* split flag switched off on a row that is an installment: merge the pair
SplitMerge(w, i, commit) ==
    LET cleared == [i EXCEPT !.split_payment_part = 0, !.split_payment_group = 0]
    IN  IF i.split_payment_group = 0
        THEN [w |-> w, instance |-> cleared, ret |-> cleared, returned |-> FALSE]
        ELSE
        LET all_payments == GroupPks(w, i.split_payment_group)
            total_amount == SumAmounts(w, all_payments)
            firsts == PartPks(w, i.split_payment_group, 1)
        IN  IF firsts # {}
            THEN LET fk == FirstPk(w, firsts)
                 IN  IF fk = i.pk
                     THEN LET i1 == [cleared EXCEPT !.amount = total_amount]
                          IN  [w |-> DeleteRows(w, all_payments \ {i.pk}),
                               instance |-> i1, ret |-> i1, returned |-> FALSE]
                     ELSE LET f0 == w.estimates[fk]
                              first_payment ==
                                  [f0 EXCEPT
                                     !.amount = total_amount,
                                     !.split_payment_part = 0,
                                     !.split_payment_group = 0,
                                     !.is_split_payment = FALSE,
                                     !.billing_month =
                                         IF ~f0.is_bonus_payment
                                         THEN calculate_billing_month(f0.year_month, f0.card_type, 0)
                                         ELSE @]
                              w1 == ModelSave(w, first_payment)
                              w2 == IF commit THEN DeleteRows(w1, {i.pk}) ELSE w1
                          IN  [w |-> w2, instance |-> i, ret |-> first_payment,
                               returned |-> TRUE]
            ELSE LET other_payments == all_payments \ {i.pk}
                     i1 == [cleared EXCEPT
                              !.amount = i.amount + SumAmounts(w, other_payments)]
                 IN  [w |-> DeleteRows(w, other_payments),
                      instance |-> i1, ret |-> i1, returned |-> FALSE]

SplitBlock(w, i, commit) ==
    LET is_already_split == i.split_payment_part # 0
        same == [w |-> w, instance |-> i, ret |-> i, returned |-> FALSE]
    IN  IF i.is_split_payment
        THEN IF ~is_already_split THEN SplitNew(w, i, commit)
             ELSE IF i.split_payment_part = 1 /\ i.split_payment_group # 0
                  THEN SplitEditFirst(w, i)
             ELSE IF i.split_payment_part = 2 /\ i.split_payment_group # 0
                  THEN SplitEditSecond(w, i)
             ELSE same
        ELSE IF is_already_split THEN SplitMerge(w, i, commit)
             ELSE same

\* billing month of a normal (non-split) payment, then instance.save()
FinalBlock(r, commit) ==
    IF r.returned THEN r
    ELSE LET i == r.instance
             i1 == IF ~i.is_bonus_payment
                      /\ (~i.is_split_payment \/ i.split_payment_part = 0)
                   THEN [i EXCEPT !.billing_month =
                            calculate_billing_month(i.year_month, i.card_type, 0)]
                   ELSE i
             w1 == IF commit THEN ModelSave(r.w, i1) ELSE r.w
             i2 == IF commit THEN Saved(r.w, i1) ELSE i1
         IN  [w |-> w1, instance |-> i2, ret |-> i2, returned |-> FALSE]

FormSave(w, instance, commit) ==
    LET i1 == PurchaseBlock(instance)
        i2 == BonusBlock(w, i1)
    IN  FinalBlock(SplitBlock(w, i2, commit), commit)

-----------------------------------------------------------------------------
(* Requests *)

World == [estimates |-> estimates, nextPk |-> nextPk, nextGroup |-> nextGroup]

\* the inputs a request may carry
CreateAmounts == {20001}
EditAmounts == {1000, 20001}
PurchaseDates == {<<2025, 11, 5>>, <<2025, 12, 20>>}
DateInputs == PurchaseDates

\* A variant of the validation without the check of the two bonus gaps.
FormValidNoGap(card_type, amount, purchase_date, is_split_payment, is_bonus_payment) ==
    /\ purchase_date # NoDate
    /\ amount # NoAmount
    /\ ~(is_split_payment /\ is_bonus_payment)
    /\ ((is_split_payment \/ is_bonus_payment) => card_type = ViewCard)

\* A variant of the validation that lets both payment flags through.
FormValidBothFlags(card_type, amount, purchase_date, is_split_payment, is_bonus_payment) ==
    /\ purchase_date # NoDate
    /\ amount # NoAmount
    /\ ((is_split_payment \/ is_bonus_payment) => card_type = ViewCard)
    /\ (is_bonus_payment => ~InBonusGap(purchase_date[2], purchase_date[3]))

\* CreditEstimateForm.clean() together with the required fields
FormValid(card_type, amount, purchase_date, is_split_payment, is_bonus_payment) ==
    /\ purchase_date # NoDate
    /\ amount # NoAmount
    /\ ~(is_split_payment /\ is_bonus_payment)
    /\ ((is_split_payment \/ is_bonus_payment) => card_type = ViewCard)
    /\ (is_bonus_payment => ~InBonusGap(purchase_date[2], purchase_date[3]))

\* construct_instance(): the form's fields written onto the instance
Construct(instance, card_type, amount, purchase_date, is_split_payment, is_bonus_payment) ==
    [instance EXCEPT !.card_type = card_type,
                     !.amount = amount,
                     !.purchase_date = purchase_date,
                     !.is_split_payment = is_split_payment,
                     !.is_bonus_payment = is_bonus_payment]

Rejected(op, status, pk) ==
    [op |-> op, ok |-> FALSE, status |-> status, pk |-> pk, ret |-> 0,
     amount |-> NoAmount, is_split_payment |-> FALSE,
     pre_part |-> 0, pre_group |-> 0, pre_pks |-> {}, pre_sum |-> 0,
     new_group |-> 0]

\* pre_part, pre_group: the addressed row's installment fields before the
\* request; pre_pks, pre_sum: the rows of its split group before the request
\* and the sum of their amounts
Accepted(op, pk, ret, amount, is_split_payment, pre_part, pre_group, pre_pks, pre_sum, new_group) ==
    [op |-> op, ok |-> TRUE, status |-> "ok", pk |-> pk, ret |-> ret,
     amount |-> amount, is_split_payment |-> is_split_payment,
     pre_part |-> pre_part, pre_group |-> pre_group, pre_pks |-> pre_pks,
     pre_sum |-> pre_sum, new_group |-> new_group]

PreGroupPks(estimate) ==
    IF estimate.split_payment_group = 0 THEN {}
    ELSE GroupPks(World, estimate.split_payment_group)

\* credit_estimate_list, action create_estimate: form.save(commit=False),
\* then the bonus month adjustment, then form.save() on the same instance
CreateResult(w, card_type, amount, purchase_date, is_split_payment, is_bonus_payment) ==
    LET i0 == Construct(NewInstance, card_type, amount, purchase_date,
                        is_split_payment, is_bonus_payment)
        r1 == FormSave(w, i0, FALSE)
        estimate == IF r1.instance.is_bonus_payment
                    THEN [r1.instance EXCEPT !.year_month = get_next_bonus_month(@)]
                    ELSE r1.instance
    IN  FormSave(r1.w, estimate, TRUE)

CreateRequest(card_type, amount, purchase_date, is_split_payment, is_bonus_payment) ==
    IF FormValid(card_type, amount, purchase_date, is_split_payment, is_bonus_payment)
    THEN LET r == CreateResult(World, card_type, amount, purchase_date,
                               is_split_payment, is_bonus_payment)
         IN  /\ estimates' = r.w.estimates
             /\ nextPk' = r.w.nextPk
             /\ nextGroup' = r.w.nextGroup
             /\ last' = Accepted("create", 0, r.ret.pk, amount, is_split_payment,
                                 0, 0, {}, 0, r.ret.split_payment_group)
             /\ UNCHANGED cards
    ELSE /\ last' = Rejected("create", "invalid", 0)
         /\ UNCHANGED <<cards, estimates, nextPk, nextGroup>>

CreateEstimate ==
    \E card_type \in CardKeys, amount \in CreateAmounts, purchase_date \in DateInputs,
       is_split_payment \in BOOLEAN, is_bonus_payment \in BOOLEAN :
        /\ CreateRequest(card_type, amount, purchase_date, is_split_payment, is_bonus_payment)
        /\ UNCHANGED probe

\* credit_estimate_edit: form.save(commit=False), then save() of the row returned
EditResult(w, pk, card_type, amount, purchase_date, is_split_payment, is_bonus_payment) ==
    LET i0 == Construct(w.estimates[pk], card_type, amount, purchase_date,
                        is_split_payment, is_bonus_payment)
        r == FormSave(w, i0, FALSE)
    IN  [r EXCEPT !.w = ModelSave(r.w, r.ret)]

EditRequest(pk, card_type, amount, purchase_date, is_split_payment, is_bonus_payment) ==
    IF pk \notin DOMAIN estimates
    THEN /\ last' = Rejected("edit", "not_found", pk)
         /\ UNCHANGED <<cards, estimates, nextPk, nextGroup>>
    ELSE LET estimate == estimates[pk]
         IN  IF /\ estimate.split_payment_group # 0
                /\ estimate.split_payment_part # 0
                /\ card_type # estimate.card_type
             THEN /\ last' = Rejected("edit", "card_locked", pk)
                  /\ UNCHANGED <<cards, estimates, nextPk, nextGroup>>
             ELSE IF ~FormValid(card_type, amount, purchase_date,
                                is_split_payment, is_bonus_payment)
             THEN /\ last' = Rejected("edit", "invalid", pk)
                  /\ UNCHANGED <<cards, estimates, nextPk, nextGroup>>
             ELSE LET r == EditResult(World, pk, card_type, amount, purchase_date,
                                      is_split_payment, is_bonus_payment)
                  IN  /\ estimates' = r.w.estimates
                      /\ nextPk' = r.w.nextPk
                      /\ nextGroup' = r.w.nextGroup
                      /\ last' = Accepted("edit", pk, r.ret.pk, amount, is_split_payment,
                                    estimate.split_payment_part,
                                    estimate.split_payment_group,
                                    PreGroupPks(estimate),
                                    SumAmounts(World, PreGroupPks(estimate)),
                                    r.ret.split_payment_group)
                      /\ UNCHANGED cards

EditEstimate ==
    \E pk \in 1..nextPk, card_type \in CardKeys, amount \in EditAmounts,
       purchase_date \in DateInputs,
       is_split_payment \in BOOLEAN, is_bonus_payment \in BOOLEAN :
        /\ EditRequest(pk, card_type, amount, purchase_date, is_split_payment, is_bonus_payment)
        /\ UNCHANGED probe

\* credit_estimate_delete without the group filter: only the addressed row goes
DeleteEstimateAlone ==
    \E pk \in 1..nextPk :
        IF pk \notin DOMAIN estimates
        THEN /\ last' = Rejected("delete", "error", pk)
             /\ UNCHANGED <<cards, estimates, nextPk, nextGroup, probe>>
        ELSE LET estimate == estimates[pk]
             IN  /\ estimates' = DeleteRows(World, {pk}).estimates
                 /\ last' = Accepted("delete", pk, 0, NoAmount, FALSE, estimate.split_payment_part,
                                     estimate.split_payment_group,
                                     PreGroupPks(estimate), 0, 0)
                 /\ UNCHANGED <<cards, nextPk, nextGroup, probe>>

\* credit_estimate_delete for a purchase (no default_id)
DeleteEstimate ==
    \E pk \in 1..nextPk :
        IF pk \notin DOMAIN estimates
        THEN /\ last' = Rejected("delete", "error", pk)
             /\ UNCHANGED <<cards, estimates, nextPk, nextGroup, probe>>
        ELSE LET estimate == estimates[pk]
                 gone == IF estimate.is_split_payment /\ estimate.split_payment_group # 0
                         THEN GroupPks(World, estimate.split_payment_group)
                         ELSE {pk}
             IN  /\ estimates' = DeleteRows(World, gone).estimates
                 /\ last' = Accepted("delete", pk, 0, NoAmount, FALSE, estimate.split_payment_part,
                                     estimate.split_payment_group,
                                     PreGroupPks(estimate), 0, 0)
                 /\ UNCHANGED <<cards, nextPk, nextGroup, probe>>

NoProbe == [fn |-> "none"]

\* the workers that serve requests concurrently
Workers == {1, 2}

Idle == [pc |-> "idle"]

\* no recurring charge has been entered
NoTemplates ==
    /\ templates = <<>>
    /\ overrides = <<>>
    /\ nextOverridePk = 1
    /\ plans = <<>>
    /\ renders = [p \in Workers |-> Idle]
    /\ today = <<2025, 10, 14>>

PurchaseCardConfigs ==
    { (ViewCard :> PolicyDay(5)) @@ (OtherCard :> PolicyEndOfMonth),
      (ViewCard :> PolicyEndOfMonth) @@ (OtherCard :> PolicyDay(10)) }

Init ==
    /\ cards \in PurchaseCardConfigs
    /\ estimates = [k \in {} |-> NewInstance]
    /\ nextPk = 1
    /\ nextGroup = 1
    /\ requests = 0
    /\ last = Rejected("init", "none", 0)
    /\ probe = NoProbe
    /\ NoTemplates

Request(A) ==
    /\ requests < MaxRequests
    /\ requests' = requests + 1
    /\ A
    /\ UNCHANGED snapVars

Next ==
    \/ Request(CreateEstimate)
    \/ Request(EditEstimate)
    \/ Request(DeleteEstimate)

Spec == Init /\ [][Next]_vars

-----------------------------------------------------------------------------
(* Applications of the pure functions to enumerated inputs *)

Years == {2025, 2028}
UsageMonths == {FormatYM(y, m) : y \in Years, m \in 1..12}
CalendarDates ==
    {dt \in Years \X (1..12) \X (1..31) : dt[3] <= DaysInMonth(dt[1], dt[2])}
ProbeCards == CardKeys \cup {"item_9"}
Totals == (0..MaxTotal) \cup {20001}

EmptyWorld ==
    [estimates |-> [k \in {} |-> NewInstance], nextPk |-> 1, nextGroup |-> 1]

\* the row stored for a normal one-off purchase entered on an empty table
SavedPurchase(purchase_date, card_type) ==
    CreateResult(EmptyWorld, card_type, 0, purchase_date, FALSE, FALSE).ret

ApplyBillingMonth ==
    \E usage_month \in UsageMonths, card_type \in ProbeCards, split_part \in 0..2 :
        probe' = [fn |-> "calculate_billing_month", usage_month |-> usage_month,
                  card_type |-> card_type, split_part |-> split_part,
                  out |-> calculate_billing_month(usage_month, card_type, split_part)]

ApplyPurchase ==
    \E usage_month \in UsageMonths, day \in 1..31, card_type \in ProbeCards :
        LET y == ParseYear(usage_month)
            m == ParseMonth(usage_month)
            purchase_date == <<y, m, ClampDay(y, m, day)>>
            row == SavedPurchase(purchase_date, card_type)
        IN  probe' = [fn |-> "purchase", usage_month |-> usage_month, day |-> day,
                      purchase_date |-> purchase_date, card_type |-> card_type,
                      year_month |-> row.year_month, out |-> row.billing_month]

ApplySplit ==
    \E total \in Totals :
        probe' = [fn |-> "split", total |-> total,
                  first |-> SplitFirst(total), second |-> SplitSecond(total)]

ApplyBonus ==
    \E purchase_date \in CalendarDates :
        probe' = [fn |-> "bonus", purchase_date |-> purchase_date,
                  out |-> get_bonus_due_date_from_purchase(purchase_date)]

ApplyClosingDate ==
    \E usage_month \in UsageMonths, card_type \in ProbeCards :
        probe' = [fn |-> "closing_date", usage_month |-> usage_month,
                  card_type |-> card_type,
                  out |-> closing_date(usage_month, card_type)]

InitPure ==
    /\ cards \in CardConfigs
    /\ estimates = [k \in {} |-> NewInstance]
    /\ nextPk = 1
    /\ nextGroup = 1
    /\ requests = 0
    /\ last = Rejected("init", "none", 0)
    /\ probe = NoProbe
    /\ NoTemplates

NextPure ==
    \/ probe = NoProbe /\ ApplyBillingMonth /\ UNCHANGED <<cards, estimates, nextPk, nextGroup, requests, last>> /\ UNCHANGED snapVars
    \/ probe = NoProbe /\ ApplyPurchase /\ UNCHANGED <<cards, estimates, nextPk, nextGroup, requests, last>> /\ UNCHANGED snapVars
    \/ probe = NoProbe /\ ApplySplit /\ UNCHANGED <<cards, estimates, nextPk, nextGroup, requests, last>> /\ UNCHANGED snapVars
    \/ probe = NoProbe /\ ApplyBonus /\ UNCHANGED <<cards, estimates, nextPk, nextGroup, requests, last>> /\ UNCHANGED snapVars
    \/ probe = NoProbe /\ ApplyClosingDate /\ UNCHANGED <<cards, estimates, nextPk, nextGroup, requests, last>> /\ UNCHANGED snapVars

SpecPure == InitPure /\ [][NextPure]_vars

-----------------------------------------------------------------------------
(* Month arithmetic used to state the properties *)

MonthIndex(ym) == ParseYear(ym) * 12 + (ParseMonth(ym) - 1)
AddMonths(ym, n) ==
    LET idx == MonthIndex(ym) + n IN FormatYM(idx \div 12, (idx % 12) + 1)

-----------------------------------------------------------------------------
(* Properties of the pure functions (checked under SpecPure) *)

IsEndOfMonthCard(card_type) ==
    HasCardDefault(card_type) /\ cards[card_type].is_end_of_month

IsDayOfMonthCard(card_type) ==
    /\ HasCardDefault(card_type)
    /\ ~cards[card_type].is_end_of_month
    /\ cards[card_type].closing_day # 0

\* C1: calculate_billing_month returns the usage month plus one month for a
\* card closing at month end and plus two months for a card closing on a day
\* of the month, and one month more for split part 2, for every month 01..12
\* with the year rolling over.
C1_BillingMonthOffsets ==
    probe.fn = "calculate_billing_month" =>
        LET extra == IF probe.split_part = 2 THEN 1 ELSE 0
        IN  /\ IsEndOfMonthCard(probe.card_type) =>
                 probe.out = AddMonths(probe.usage_month, 1 + extra)
            /\ IsDayOfMonthCard(probe.card_type) =>
                 probe.out = AddMonths(probe.usage_month, 2 + extra)

C1_Witness ==
    /\ probe.fn = "calculate_billing_month"
    /\ IsDayOfMonthCard(probe.card_type)
    /\ probe.usage_month = FormatYM(2025, 12)
    /\ probe.split_part = 2
    /\ probe.out = FormatYM(2026, 3)

\* C2: a charge incurred on day dayOfMonth (clamped to the month's length) of
\* usageMonth is billed in usageMonth + 1 on a DayOfMonth(n) card when the day
\* is at most n and in usageMonth + 2 when it is after n; on a month-end card
\* it is billed in usageMonth + 1 whatever the day.
C2_BillingMonthForPurchase ==
    probe.fn = "purchase" =>
        LET day == ClampDay(ParseYear(probe.usage_month),
                            ParseMonth(probe.usage_month), probe.day)
        IN  /\ IsEndOfMonthCard(probe.card_type) =>
                 probe.out = AddMonths(probe.usage_month, 1)
            /\ IsDayOfMonthCard(probe.card_type) =>
                 probe.out = AddMonths(probe.usage_month,
                     IF day <= cards[probe.card_type].closing_day THEN 1 ELSE 2)

C2_Witness ==
    /\ probe.fn = "purchase"
    /\ IsDayOfMonthCard(probe.card_type)
    /\ cards[probe.card_type].closing_day = 5
    /\ probe.usage_month = FormatYM(2025, 11)
    /\ probe.day = 10
    /\ probe.out = FormatYM(2026, 1)

\* C4: for every non-negative total the split rule gives
\* second = floor(total / 200) * 100 and first = total - second, so that
\* first + second = total, second is a multiple of 100 and first >= second.
C4_SplitRule ==
    probe.fn = "split" =>
        /\ probe.second = (probe.total \div 200) * 100
        /\ probe.first = probe.total - probe.second
        /\ probe.first + probe.second = probe.total
        /\ probe.second % 100 = 0
        /\ probe.first >= probe.second
        /\ 2 * probe.second <= probe.total
        /\ probe.total < 2 * (probe.second + 100)

C4_Witness ==
    /\ probe.fn = "split"
    /\ probe.total = 20001
    /\ probe.first = 10001
    /\ probe.second = 10000

\* C10: the bonus classifier returns August 4 of the same year for Jan 1..Jun 5,
\* August 4 of the next year for Dec 6..Dec 31, January 4 of the next year for
\* Jul 6..Nov 5, and None exactly for Jun 6..Jul 5 and Nov 6..Dec 5.
C10_BonusRegions ==
    probe.fn = "bonus" =>
        LET year == probe.purchase_date[1]
            md == probe.purchase_date[2] * 100 + probe.purchase_date[3]
        IN  /\ (101 <= md /\ md <= 605) => probe.out = <<year, 8, 4>>
            /\ (606 <= md /\ md <= 705) => probe.out = NoDate
            /\ (706 <= md /\ md <= 1105) => probe.out = <<year + 1, 1, 4>>
            /\ (1106 <= md /\ md <= 1205) => probe.out = NoDate
            /\ (1206 <= md /\ md <= 1231) => probe.out = <<year + 1, 8, 4>>
            /\ (probe.out = NoDate <=>
                   (606 <= md /\ md <= 705) \/ (1106 <= md /\ md <= 1205))

C10_Witness ==
    /\ probe.fn = "bonus"
    /\ probe.purchase_date = <<2025, 12, 6>>
    /\ probe.out = <<2026, 8, 4>>

-----------------------------------------------------------------------------
(* Properties of the purchase requests (checked under Spec) *)

Rows == DOMAIN estimates

\* the two rows of a complete split pair
IsPair(a, b) ==
    /\ a \in Rows /\ b \in Rows
    /\ estimates[a].split_payment_group # 0
    /\ estimates[a].split_payment_group = estimates[b].split_payment_group
    /\ estimates[a].split_payment_part = 1
    /\ estimates[b].split_payment_part = 2

\* the usage-month key the code derives from a purchase date: the month before
\* the purchase month when the card closes on day n and the day is at most n
ClosingPeriodKey(purchase_date, card_type) ==
    IF IsDayOfMonthCard(card_type)
       /\ purchase_date[3] <= cards[card_type].closing_day
    THEN AddMonths(Strftime(purchase_date), -1)
    ELSE Strftime(purchase_date)

C5_CreateSplitAmounts ==
    (last.op = "create" /\ last.ok /\ last.is_split_payment) =>
        LET pks == GroupPks(World, last.new_group)
            second == (last.amount \div 200) * 100
        IN  /\ Cardinality(pks) = 2
            /\ \E a \in pks, b \in pks :
                  /\ IsPair(a, b)
                  /\ estimates[a].amount = last.amount - second
                  /\ estimates[b].amount = second

\* an edit addressed to one installment of a complete pair
EditedPair ==
    /\ last.op = "edit" /\ last.ok
    /\ last.pre_part \in {1, 2}
    /\ Cardinality(last.pre_pks) = 2

\* C6: after a successful edit of either installment of a split pair with the
\* split flag on and total T', part 1 holds T' - floor(T'/200)*100 and part 2
\* holds floor(T'/200)*100.
C6_EditSplitAmounts ==
    (EditedPair /\ last.is_split_payment) =>
        LET second == (last.amount \div 200) * 100
        IN  \E a \in last.pre_pks, b \in last.pre_pks :
                /\ IsPair(a, b)
                /\ estimates[a].amount = last.amount - second
                /\ estimates[b].amount = second

C6_Witness ==
    /\ EditedPair /\ last.is_split_payment
    /\ last.pre_part = 2
    /\ last.amount = 1000
    /\ \E a \in last.pre_pks, b \in last.pre_pks :
          IsPair(a, b) /\ estimates[a].amount = 500 /\ estimates[b].amount = 500

\* C7: after a successful edit of either installment of a split pair with the
\* split flag off, exactly one row of the former pair remains; it holds the sum
\* of the two former amounts, is not a split payment, has its part and group
\* cleared, and no stored row carries the old group.
C7_MergeLeavesOneRow ==
    (EditedPair /\ ~last.is_split_payment) =>
        /\ Cardinality(last.pre_pks \cap Rows) = 1
        /\ \A k \in last.pre_pks \cap Rows :
              /\ estimates[k].amount = last.pre_sum
              /\ ~estimates[k].is_split_payment
              /\ estimates[k].split_payment_part = 0
              /\ estimates[k].split_payment_group = 0
        /\ GroupPks(World, last.pre_group) = {}

\* C8: every stored split purchase has part 1 or 2 and exactly one other stored
\* row with the same group and the complementary part.
C8_SplitRowsArePaired ==
    \A k \in Rows :
        estimates[k].is_split_payment =>
            /\ estimates[k].split_payment_part \in {1, 2}
            /\ Cardinality({j \in Rows \ {k} :
                    /\ estimates[j].split_payment_group = estimates[k].split_payment_group
                    /\ estimates[j].split_payment_part = 3 - estimates[k].split_payment_part}) = 1

\* C9: for every split pair the billing month of part 2 is one calendar month
\* after the billing month of part 1.
C9_SecondBilledOneMonthLater ==
    \A a \in Rows, b \in Rows :
        IsPair(a, b) =>
            estimates[b].billing_month = AddMonths(estimates[a].billing_month, 1)

-----------------------------------------------------------------------------
(* Purchase requests with the whole range of form inputs: missing amount,  *)
(* missing date, dates inside and at the edges of the bonus gaps           *)

MaxFormRequests == 2

FormAmounts == {NoAmount, 20001}
FormDates ==
    {NoDate, <<2025, 6, 5>>, <<2025, 7, 5>>, <<2025, 11, 6>>, <<2025, 12, 6>>}

\* the form data of a submitted request
FormData(op, pk, card_type, amount, purchase_date, is_split_payment, is_bonus_payment) ==
    [fn |-> "form", op |-> op, pk |-> pk, card_type |-> card_type, amount |-> amount,
     purchase_date |-> purchase_date, is_split_payment |-> is_split_payment,
     is_bonus_payment |-> is_bonus_payment]

SubmitCreate ==
    \E card_type \in CardKeys, amount \in FormAmounts, purchase_date \in FormDates,
       is_split_payment \in BOOLEAN, is_bonus_payment \in BOOLEAN :
        /\ CreateRequest(card_type, amount, purchase_date, is_split_payment, is_bonus_payment)
        /\ probe' = FormData("create", 0, card_type, amount, purchase_date,
                             is_split_payment, is_bonus_payment)

SubmitEdit ==
    \E pk \in DOMAIN estimates, card_type \in CardKeys, amount \in FormAmounts,
       purchase_date \in FormDates,
       is_split_payment \in BOOLEAN, is_bonus_payment \in BOOLEAN :
        /\ EditRequest(pk, card_type, amount, purchase_date, is_split_payment, is_bonus_payment)
        /\ probe' = FormData("edit", pk, card_type, amount, purchase_date,
                             is_split_payment, is_bonus_payment)

SubmitDelete ==
    /\ DeleteEstimate
    /\ last'.ok

FormRequest(A) ==
    /\ requests < MaxFormRequests
    /\ requests' = requests + 1
    /\ A
    /\ UNCHANGED snapVars

NextForm ==
    \/ FormRequest(SubmitCreate)
    \/ FormRequest(SubmitEdit)
    \/ FormRequest(SubmitDelete)

SpecForm == Init /\ [][NextForm]_vars

-----------------------------------------------------------------------------
(* Properties of bonus purchases and of the validation (checked under SpecForm) *)

\* C11: a stored bonus purchase with purchase date d has d's calendar month as
\* usage month, the classifier's payment date for d as payment date, and the
\* month of that payment date, which is get_bonus_month_from_date(d), as
\* billing month.
C11_BonusPurchaseFields ==
    \A k \in Rows :
        (estimates[k].is_bonus_payment /\ estimates[k].purchase_date # NoDate) =>
            LET d == estimates[k].purchase_date
                due == get_bonus_due_date_from_purchase(d)
            IN  /\ due # NoDate
                /\ estimates[k].year_month = Strftime(d)
                /\ estimates[k].due_date = due
                /\ estimates[k].billing_month = Strftime(due)
                /\ estimates[k].billing_month = get_bonus_month_from_date(d)

C11_Witness ==
    \E k \in Rows :
        /\ estimates[k].is_bonus_payment
        /\ estimates[k].purchase_date = <<2025, 12, 6>>
        /\ estimates[k].year_month = FormatYM(2025, 12)
        /\ estimates[k].due_date = <<2026, 8, 4>>
        /\ estimates[k].billing_month = FormatYM(2026, 8)

\* the five grounds for rejecting a purchase form
FormInvalid(f) ==
    \/ f.is_bonus_payment /\ f.purchase_date # NoDate
          /\ InBonusGap(f.purchase_date[2], f.purchase_date[3])
    \/ f.is_bonus_payment /\ f.purchase_date = NoDate
    \/ f.is_split_payment /\ f.is_bonus_payment
    \/ (f.is_split_payment \/ f.is_bonus_payment) /\ f.card_type # ViewCard
    \/ f.amount = NoAmount

\* C12: a create or edit request that is bonus-flagged with a date in a gap or
\* without a date, asks for split and bonus together, asks for split or bonus
\* on a card other than the one supporting them, or has no amount, is rejected
\* and leaves the stored purchases as they were.
C12_InvalidRequestRejected ==
    [][(requests' = requests + 1 /\ last'.op \in {"create", "edit"}
            /\ probe'.fn = "form" /\ FormInvalid(probe'))
        => (~last'.ok /\ estimates' = estimates /\ nextPk' = nextPk)]_vars

C12_Witness ==
    /\ probe.fn = "form" /\ probe.op = "edit"
    /\ last.op = "edit" /\ ~last.ok /\ last.status = "invalid"
    /\ probe.is_bonus_payment /\ ~probe.is_split_payment
    /\ probe.card_type = ViewCard /\ probe.amount # NoAmount
    /\ probe.purchase_date = <<2025, 11, 6>>
    /\ Rows # {}

-----------------------------------------------------------------------------
(* Closing date (checked under SpecPure) *)

\* C20: the closing date of a usage month is the last day of that month for a
\* month-end card and day n of the following month for a card closing on day n,
\* with the year rolling over.
C20_ClosingDate ==
    probe.fn = "closing_date" =>
        LET year == ParseYear(probe.usage_month)
            month == ParseMonth(probe.usage_month)
            following == AddMonths(probe.usage_month, 1)
        IN  /\ IsEndOfMonthCard(probe.card_type) =>
                 probe.out = <<year, month, DaysInMonth(year, month)>>
            /\ IsDayOfMonthCard(probe.card_type) =>
                 probe.out = <<ParseYear(following), ParseMonth(following),
                               cards[probe.card_type].closing_day>>

C20_Witness ==
    /\ probe.fn = "closing_date"
    /\ IsDayOfMonthCard(probe.card_type)
    /\ cards[probe.card_type].closing_day = 5
    /\ probe.usage_month = FormatYM(2025, 12)
    /\ probe.out = <<2026, 1, 5>>

-----------------------------------------------------------------------------
(* Recurring charges: CreditDefault templates and their monthly            *)
(* DefaultChargeOverride snapshots.  credit_estimate_list reads the tables *)
(* when the request starts, creates the missing snapshots while it builds  *)
(* the summary, and only then runs the POST action it was sent.            *)
(* The card registry rows have card_id equal to key, as the rows the view's *)
(* comments and the repository's tests describe.                           *)

DateLess(a, b) ==
    \/ a[1] < b[1]
    \/ a[1] = b[1] /\ a[2] < b[2]
    \/ a[1] = b[1] /\ a[2] = b[2] /\ a[3] < b[3]

\* override_map: (default_id, year_month) -> the stored values
OverrideMap(ovs) ==
    [key \in {<<ovs[k].default, ovs[k].year_month>> : k \in DOMAIN ovs} |->
        LET k == CHOOSE j \in DOMAIN ovs :
                     <<ovs[j].default, ovs[j].year_month>> = key
        IN  [amount |-> ovs[k].amount, card_type |-> ovs[k].card_type,
             is_split_payment |-> ovs[k].is_split_payment]]

\* CreditDefault.objects.filter(is_active=True)
ActiveDefaults(tpls) ==
    [id \in {d \in DOMAIN tpls : tpls[d].is_active} |-> tpls[id]]

\* an estimate is listed until the day after its closing date (a bonus
\* payment until its due date)
Shown(est, td) ==
    IF ~est.is_bonus_payment
    THEN ~DateLess(closing_date(est.year_month, est.card_type), td)
    ELSE est.due_date = NoDate \/ DateLess(td, est.due_date)

display_month(est) ==
    IF est.is_bonus_payment /\ est.due_date # NoDate THEN Strftime(est.due_date)
    ELSE IF est.billing_month # 0 THEN est.billing_month
    ELSE est.year_month

current_year_month(td) == FormatYM(td[1], td[2])

\* MonthlyPlan.objects.filter(year_month__lt=current_year_month)
past_plans(pl, td) == {ym \in DOMAIN pl : ym < current_year_month(td)}

\* the billing months that have a section of normal payments, and the past
\* months that have a monthly plan
existing_billing_months(ests, past, td) ==
    {display_month(ests[k]) :
        k \in {j \in DOMAIN ests : Shown(ests[j], td) /\ ~ests[j].is_bonus_payment}}
    \cup past

\* the registry rows the view keeps in card_info
card_info == {c \in DOMAIN cards : cards[c].is_active}

three_months_ago(td) == AddMonths(current_year_month(td), -3)

UsageMonthOf(billing_month, card_id) ==
    AddMonths(billing_month, IF cards[card_id].is_end_of_month THEN -1 ELSE -2)

\* the keys of candidate_usage_cards: (usage_month, card_id)
candidate_usage_cards(ebm, td) ==
    {key \in {<<UsageMonthOf(bm, c), c>> : bm \in ebm, c \in card_info} :
        key[1] >= three_months_ago(td)}

candidate_usage_months(ebm, td) ==
    {key[1] : key \in candidate_usage_cards(ebm, td)}

\* what a request has read when it starts to build the summary
Loaded(ovs, tpls, ests, pl) ==
    [pc |-> "loaded",
     override_map |-> OverrideMap(ovs),
     credit_defaults |-> ActiveDefaults(tpls),
     estimates |-> ests,
     past_plans |-> past_plans(pl, today)]

EbmOf(view) == existing_billing_months(view.estimates, view.past_plans, today)

\* the (default, year_month) pairs the loop visits, in the loop's order:
\* months ascending, templates by payment_day then id
Visited(view) ==
    {<<ym, d>> \in candidate_usage_months(EbmOf(view), today) \X DOMAIN view.credit_defaults :
        ~(view.credit_defaults[d].apply_odd_months_only /\ ParseMonth(ym) % 2 = 0)}

VisitedBefore(view, a, b) ==
    \/ a[1] < b[1]
    \/ /\ a[1] = b[1]
       /\ \/ view.credit_defaults[a[2]].payment_day < view.credit_defaults[b[2]].payment_day
          \/ /\ view.credit_defaults[a[2]].payment_day = view.credit_defaults[b[2]].payment_day
             /\ a[2] < b[2]

RECURSIVE InLoopOrder(_, _)
InLoopOrder(view, S) ==
    IF S = {} THEN <<>>
    ELSE LET first == CHOOSE a \in S : \A b \in S \ {a} : VisitedBefore(view, a, b)
         IN  <<first>> \o InLoopOrder(view, S \ {first})

\* the pairs for which override_map has no entry: the loop creates them
Missing(view) ==
    InLoopOrder(view, {v \in Visited(view) : <<v[2], v[1]>> \notin DOMAIN view.override_map})

\* DefaultChargeOverride.objects.create(...) for each missing pair in turn.
\* unique_together (default, year_month) makes the INSERT fail with
\* IntegrityError when the row exists by now; nothing catches it, so the
\* request ends there and the rows it has already created stay.
RECURSIVE CreateMissing(_, _, _, _)
CreateMissing(ovs, npk, view, todo) ==
    IF todo = <<>> THEN [ok |-> TRUE, overrides |-> ovs, nextOverridePk |-> npk]
    ELSE LET ym == todo[1][1]
             default == todo[1][2]
             new_override ==
                 [pk |-> npk, default |-> default, year_month |-> ym,
                  amount |-> view.credit_defaults[default].amount,
                  card_type |-> view.credit_defaults[default].card_type,
                  is_split_payment |-> FALSE, purchase_date_override |-> NoDate]
         IN  IF \E k \in DOMAIN ovs : ovs[k].default = default /\ ovs[k].year_month = ym
             THEN [ok |-> FALSE, overrides |-> ovs, nextOverridePk |-> npk]
             ELSE CreateMissing((npk :> new_override) @@ ovs, npk + 1, view, Tail(todo))

\* A variant that refreshes every visited snapshot from its template.
MaterializeRefreshing(ovs, npk, view) ==
    LET m == CreateMissing(ovs, npk, view, Missing(view))
    IN  [m EXCEPT !.overrides =
            [k \in DOMAIN m.overrides |->
                IF <<m.overrides[k].year_month, m.overrides[k].default>> \in Visited(view)
                THEN [m.overrides[k] EXCEPT
                        !.amount = view.credit_defaults[m.overrides[k].default].amount,
                        !.card_type = view.credit_defaults[m.overrides[k].default].card_type,
                        !.is_split_payment = FALSE]
                ELSE m.overrides[k]]]

\* the whole summary loop of one request, on the tables as they are now
Materialize(ovs, npk, view) == CreateMissing(ovs, npk, view, Missing(view))

\* override_data of every visited pair once the loop has run: what was
\* read at the start, and for a created row the values it was created with
override_data(view) ==
    [key \in DOMAIN view.override_map \cup {<<v[2], v[1]>> : v \in Visited(view)} |->
        IF key \in DOMAIN view.override_map THEN view.override_map[key]
        ELSE [amount |-> view.credit_defaults[key[1]].amount,
              card_type |-> view.credit_defaults[key[1]].card_type,
              is_split_payment |-> FALSE]]

actual_card_type(view, default, year_month) ==
    LET od == override_data(view)[<<default, year_month>>]
    IN  IF od.card_type # "" THEN od.card_type
        ELSE view.credit_defaults[default].card_type

\* the billing month of a recurring charge of a usage month
DefaultBillingMonth(year_month, card_type) ==
    AddMonths(year_month,
              IF card_type \in card_info /\ cards[card_type].is_end_of_month
              THEN 1 ELSE 2)

\* the pairs that pass the loop's filters and whose closing date, for a
\* billing month that is not in the past, has not gone by
ListedPairs(view) ==
    {v \in Visited(view) :
        LET card == actual_card_type(view, v[2], v[1])
            billing_month == DefaultBillingMonth(v[1], card)
        IN  /\ <<v[1], card>> \in candidate_usage_cards(EbmOf(view), today)
            /\ billing_month \in EbmOf(view)
            /\ ~(/\ billing_month >= current_year_month(today)
                 /\ DateLess(closing_date(v[1], card), today))}

\* A variant of the summary loop that also appends entries of amount 0.
DefaultEntriesKeepingZero(view) ==
    LET entry(v, part, billing_month, amount) ==
            [default |-> v[2], year_month |-> v[1], billing_month |-> billing_month,
             card_type |-> actual_card_type(view, v[2], v[1]),
             split_payment_part |-> part, amount |-> amount]
        entries(v) ==
            LET od == override_data(view)[<<v[2], v[1]>>]
                billing_month == DefaultBillingMonth(v[1], actual_card_type(view, v[2], v[1]))
            IN  IF od.is_split_payment
                THEN {entry(v, 1, billing_month, SplitFirst(od.amount)),
                      entry(v, 2, AddMonths(billing_month, 1), SplitSecond(od.amount))}
                ELSE {entry(v, 0, billing_month, od.amount)}
    IN  UNION {entries(v) : v \in ListedPairs(view)}

\* the DefaultEntry objects of the summary: one per listed pair, two for a
\* split one (the second a billing month later); an amount of 0 is left out
DefaultEntries(view) ==
    LET entry(v, part, billing_month, amount) ==
            [default |-> v[2], year_month |-> v[1], billing_month |-> billing_month,
             card_type |-> actual_card_type(view, v[2], v[1]),
             split_payment_part |-> part, amount |-> amount]
        entries(v) ==
            LET od == override_data(view)[<<v[2], v[1]>>]
                billing_month == DefaultBillingMonth(v[1], actual_card_type(view, v[2], v[1]))
            IN  IF od.is_split_payment
                THEN {entry(v, 1, billing_month, SplitFirst(od.amount)),
                      entry(v, 2, AddMonths(billing_month, 1), SplitSecond(od.amount))}
                ELSE {entry(v, 0, billing_month, od.amount)}
    IN  {e \in UNION {entries(v) : v \in ListedPairs(view)} : e.amount > 0}

RECURSIVE SumOf(_)
SumOf(S) ==
    IF S = {} THEN 0
    ELSE LET e == CHOOSE x \in S : TRUE IN e.amount + SumOf(S \ {e})

\* card_group['manual_total'] and card_group['default_total'] of a section
manual_total(view, billing_month, card_type) ==
    SumOf({[pk |-> k, amount |-> view.estimates[k].amount] :
             k \in {j \in DOMAIN view.estimates :
                      /\ Shown(view.estimates[j], today)
                      /\ ~view.estimates[j].is_bonus_payment
                      /\ display_month(view.estimates[j]) = billing_month
                      /\ view.estimates[j].card_type = card_type}})

default_total(view, billing_month, card_type) ==
    SumOf({e \in DefaultEntries(view) :
             e.billing_month = billing_month /\ e.card_type = card_type})

\* card_group['total']: raised by the amount of each entry appended, manual
\* or recurring
group_total(view, billing_month, card_type) ==
    manual_total(view, billing_month, card_type)
        + default_total(view, billing_month, card_type)

\* card_group['entries'] of a section of normal payments
group_entries(view, billing_month, card_type) ==
    {[pk |-> k, amount |-> view.estimates[k].amount] :
        k \in {j \in DOMAIN view.estimates :
                 /\ Shown(view.estimates[j], today)
                 /\ ~view.estimates[j].is_bonus_payment
                 /\ display_month(view.estimates[j]) = billing_month
                 /\ view.estimates[j].card_type = card_type}}
    \cup {e \in DefaultEntries(view) :
             e.billing_month = billing_month /\ e.card_type = card_type}

\* the card groups of summary[billing_month] that have an entry
SummaryCards(view, billing_month) ==
    {view.estimates[k].card_type :
        k \in {j \in DOMAIN view.estimates :
                 /\ Shown(view.estimates[j], today)
                 /\ ~view.estimates[j].is_bonus_payment
                 /\ display_month(view.estimates[j]) = billing_month}}
    \cup {e.card_type : e \in {x \in DefaultEntries(view) : x.billing_month = billing_month}}

-----------------------------------------------------------------------------
(* The requests on recurring charges *)

MaxSnapRequests == 2

\* what the last finished request was and how it ended
Replied(op, ok, worker, default, year_month, card_type) ==
    [op |-> op, ok |-> ok, worker |-> worker, default |-> default,
     year_month |-> year_month, card_type |-> card_type]

\* filter(default=default, year_month=year_month)
OverridePks(ovs, default, year_month) ==
    {k \in DOMAIN ovs : ovs[k].default = default /\ ovs[k].year_month = year_month}

OverridesOf(ovs, default) == {k \in DOMAIN ovs : ovs[k].default = default}

Tables(ovs, npk) == [overrides |-> ovs, nextOverridePk |-> npk]

\* DefaultChargeOverride.objects.update_or_create(default, year_month, defaults)
\* with defaults holding amount, is_split_payment and, when one was posted,
\* card_type
edit_default(ovs, npk, default, year_month, amount, card_type, is_split_payment, purchase_date) ==
    LET pks == OverridePks(ovs, default, year_month)
    IN  IF pks # {}
        THEN LET k == CHOOSE j \in pks : TRUE
             IN  Tables([ovs EXCEPT ![k] =
                          [@ EXCEPT !.amount = amount,
                                    !.card_type = IF card_type # "" THEN card_type ELSE @,
                                    !.is_split_payment = is_split_payment,
                                    !.purchase_date_override =
                                        IF purchase_date # NoDate THEN purchase_date ELSE @]],
                        npk)
        ELSE Tables((npk :> [pk |-> npk, default |-> default, year_month |-> year_month,
                             amount |-> amount, card_type |-> card_type,
                             is_split_payment |-> is_split_payment,
                             purchase_date_override |-> purchase_date]) @@ ovs,
                    npk + 1)

\* filter(default, year_month).delete(); when that deleted nothing, a row of
\* amount 0 with the template's card is created
delete_default_for_month(ovs, npk, default, year_month) ==
    LET pks == OverridePks(ovs, default, year_month)
    IN  IF pks # {}
        THEN Tables([k \in DOMAIN ovs \ pks |-> ovs[k]], npk)
        ELSE Tables((npk :> [pk |-> npk, default |-> default, year_month |-> year_month,
                             amount |-> 0, card_type |-> templates[default].card_type,
                             is_split_payment |-> FALSE,
                             purchase_date_override |-> NoDate]) @@ ovs,
                    npk + 1)

\* credit_estimate_delete with a default_id and delete_type 'single':
\* update_or_create(default, year_month, defaults={'amount': 0})
delete_single(ovs, npk, default, year_month) ==
    LET pks == OverridePks(ovs, default, year_month)
    IN  IF pks # {}
        THEN LET k == CHOOSE j \in pks : TRUE
             IN  Tables([ovs EXCEPT ![k] = [@ EXCEPT !.amount = 0]], npk)
        ELSE Tables((npk :> [pk |-> npk, default |-> default, year_month |-> year_month,
                             amount |-> 0, card_type |-> "",
                             is_split_payment |-> FALSE,
                             purchase_date_override |-> NoDate]) @@ ovs,
                    npk + 1)

\* a key of MonthlyPlan.items: a card's own key, or the key with a suffix
PlanKey(card_type, suffix) == <<card_type, suffix>>

\* MonthlyPlan.objects.get_or_create(year_month, defaults={'items': items})
\* followed by plan.set_item(key, value) and plan.save()
SetItem(pl, year_month, items, key, value) ==
    LET plan == IF year_month \in DOMAIN pl THEN pl[year_month] ELSE items
    IN  (year_month :> ((key :> value) @@ plan)) @@ pl

\* the items a plan created by the month-wide reflect starts with: every
\* active registry item at its default amount (none is set on the cards)
items_defaults == [key \in {PlanKey(c, "") : c \in card_info} |-> 0]

\* reflect_card without a posted breakdown: the sums it recomputes itself
RecomputedManual(ests, year_month, card_type) ==
    SumOf({[pk |-> k, amount |-> ests[k].amount] :
             k \in {j \in DOMAIN ests :
                      /\ ests[j].card_type = card_type
                      /\ ~ests[j].is_bonus_payment
                      /\ ests[j].billing_month = year_month}})

RecomputedRegular(ovs, tpls, year_month, card_type) ==
    SumOf({[default |-> d,
            amount |-> IF OverridePks(ovs, d, year_month) # {}
                       THEN ovs[CHOOSE k \in OverridePks(ovs, d, year_month) : TRUE].amount
                       ELSE tpls[d].amount] :
             d \in {x \in DOMAIN tpls : tpls[x].is_active /\ tpls[x].card_type = card_type}})

\* the total reflect_card stores; NoAmount stands for a field not posted
reflect_card_total(ovs, tpls, ests, year_month, card_type, total_amount, manual, regular) ==
    LET manual_total_ == IF manual # NoAmount /\ regular # NoAmount THEN manual
                         ELSE RecomputedManual(ests, year_month, card_type)
        regular_total == IF manual # NoAmount /\ regular # NoAmount THEN regular
                         ELSE RecomputedRegular(ovs, tpls, year_month, card_type)
    IN  IF total_amount # NoAmount THEN total_amount
        ELSE manual_total_ + regular_total

\* the month-wide reflect: the total it stores for one card of the section
reflect_total(ovs, tpls, ests, year_month, card_type) ==
    LET usage_year_month ==
            AddMonths(year_month, IF cards[card_type].is_end_of_month THEN -1 ELSE -2)
        regular_total ==
            IF HasCardDefault(card_type)
            THEN SumOf({[pk |-> k, amount |-> ovs[k].amount] :
                          k \in {j \in DOMAIN ovs :
                                   /\ ovs[j].year_month = usage_year_month
                                   /\ ovs[j].card_type = card_type
                                   /\ ~(/\ tpls[ovs[j].default].apply_odd_months_only
                                        /\ ParseMonth(usage_year_month) % 2 = 0)}})
            ELSE 0
    IN  RecomputedManual(ests, year_month, card_type) + regular_total

RECURSIVE ReflectSection(_, _, _, _, _, _)
ReflectSection(pl, ovs, tpls, ests, year_month, section) ==
    IF section = {} THEN pl
    ELSE LET card_type == CHOOSE c \in section : TRUE
         IN  ReflectSection(
                 SetItem(pl, year_month, items_defaults, PlanKey(card_type, "_card"),
                         reflect_total(ovs, tpls, ests, year_month, card_type)),
                 ovs, tpls, ests, year_month, section \ {card_type})

\* the inputs of the requests
SnapMonths == {FormatYM(2025, 10), FormatYM(2025, 11)}
ReflectMonths == {FormatYM(2025, 12)}
OverrideAmounts == {150, 999}
TemplateAmounts == {1500, 2000}
\* the purchase date posted with an edit of a snapshot, NoDate when left empty
OverrideDates == {NoDate, <<2025, 10, 20>>}
ClientTotals == {NoAmount, 777}

\* credit_estimate_list starts: the tables are read.  The requests that
\* change something are counted; a page can be rendered at any time.
ListLoad(p) ==
    /\ renders[p].pc = "idle"
    /\ renders' = [renders EXCEPT ![p] = Loaded(overrides, templates, estimates, plans)]
    /\ UNCHANGED <<templates, overrides, nextOverridePk, plans, last, requests>>

\* the rest of a credit_estimate_list request: the summary loop creates the
\* missing snapshots, and a POST then runs its action on the tables as the
\* loop left them.  t is what the action makes of the snapshot table and pl
\* what it makes of the plans; an IntegrityError in the loop ends the
\* request before the action.
ListFinish(p, op, default, year_month, card_type, t, pl) ==
    LET m == Materialize(overrides, nextOverridePk, renders[p])
    IN  /\ renders' = [renders EXCEPT ![p] = Idle]
        /\ requests' = IF op = "render" THEN requests ELSE requests + 1
        /\ last' = Replied(op, m.ok, p, default, year_month, card_type)
        /\ overrides' = IF m.ok THEN t.overrides ELSE m.overrides
        /\ nextOverridePk' = IF m.ok THEN t.nextOverridePk ELSE m.nextOverridePk
        /\ plans' = IF m.ok THEN pl ELSE plans
        /\ UNCHANGED templates

Materialized(p) == Materialize(overrides, nextOverridePk, renders[p])

\* GET: the page is rendered
ListGet(p) ==
    /\ renders[p].pc = "loaded"
    /\ ListFinish(p, "render", 0, 0, "",
                  Tables(Materialized(p).overrides, Materialized(p).nextOverridePk), plans)

ListEditDefault(p) ==
    /\ renders[p].pc = "loaded"
    /\ requests < MaxSnapRequests
    /\ \E default \in DOMAIN templates, year_month \in SnapMonths,
          amount \in OverrideAmounts, card_type \in {"", OtherCard},
          is_split_payment \in BOOLEAN, purchase_date \in OverrideDates :
        ListFinish(p, "edit_default", default, year_month, card_type,
                   edit_default(Materialized(p).overrides, Materialized(p).nextOverridePk,
                                default, year_month, amount, card_type, is_split_payment,
                                purchase_date),
                   plans)

ListDeleteDefaultForMonth(p) ==
    /\ renders[p].pc = "loaded"
    /\ requests < MaxSnapRequests
    /\ \E default \in DOMAIN templates, year_month \in SnapMonths :
        ListFinish(p, "delete_default_for_month", default, year_month, "",
                   delete_default_for_month(Materialized(p).overrides,
                                            Materialized(p).nextOverridePk,
                                            default, year_month),
                   plans)

\* reflect_card for a card of the registry; a total of 0 is refused
ListReflectCard(p) ==
    /\ renders[p].pc = "loaded"
    /\ requests < MaxSnapRequests
    /\ \E year_month \in ReflectMonths, card_type \in {ViewCard},
          total_amount \in ClientTotals, breakdown \in {NoAmount, 100} :
        LET total == reflect_card_total(Materialized(p).overrides, templates, estimates,
                                        year_month, card_type, total_amount,
                                        breakdown, breakdown)
        IN  /\ total # 0
            /\ ListFinish(p, "reflect_card", 0, year_month, card_type,
                          Tables(Materialized(p).overrides, Materialized(p).nextOverridePk),
                          SetItem(plans, year_month, <<>>, PlanKey(card_type, ""), total))

\* reflect with reflect_type 'normal': every card group of the section
ListReflect(p) ==
    /\ renders[p].pc = "loaded"
    /\ requests < MaxSnapRequests
    /\ \E year_month \in ReflectMonths :
        /\ SummaryCards(renders[p], year_month) # {}
        /\ ListFinish(p, "reflect", 0, year_month, "",
                      Tables(Materialized(p).overrides, Materialized(p).nextOverridePk),
                      ReflectSection(plans, Materialized(p).overrides, templates, estimates,
                                     year_month, SummaryCards(renders[p], year_month)))

\* a request of another view: it reads and writes in one step
SnapRequest(A) ==
    /\ requests < MaxSnapRequests
    /\ requests' = requests + 1
    /\ A
    /\ UNCHANGED renders

\* credit_estimate_delete with a default_id
DeleteSingle ==
    \E default \in DOMAIN templates, year_month \in SnapMonths :
        LET t == delete_single(overrides, nextOverridePk, default, year_month)
        IN  /\ overrides' = t.overrides
            /\ nextOverridePk' = t.nextOverridePk
            /\ last' = Replied("delete_single", TRUE, 0, default, year_month, "")
            /\ UNCHANGED <<templates, plans>>

\* A variant of delete_type 'all' that only deactivates the template.
DeleteAllKeepingSnapshots ==
    \E default \in DOMAIN templates :
        /\ templates' = [templates EXCEPT ![default].is_active = FALSE]
        /\ last' = Replied("delete_all", TRUE, 0, default, 0, "")
        /\ UNCHANGED <<overrides, nextOverridePk, plans>>

DeleteAll ==
    \E default \in DOMAIN templates :
        /\ overrides' = [k \in DOMAIN overrides \ OverridesOf(overrides, default) |->
                            overrides[k]]
        /\ templates' = [templates EXCEPT ![default].is_active = FALSE]
        /\ last' = Replied("delete_all", TRUE, 0, default, 0, "")
        /\ UNCHANGED <<nextOverridePk, plans>>

\* A variant of the update that reaches the template's snapshots of every month.
CreditDefaultUpdateAllMonths ==
    \E id \in DOMAIN templates, amount \in TemplateAmounts, card_type \in card_info :
        LET old_amount == templates[id].amount
            old_card_type == templates[id].card_type
        IN  /\ templates' = [templates EXCEPT ![id].amount = amount,
                                              ![id].card_type = card_type]
            /\ overrides' =
                 [k \in DOMAIN overrides |->
                    IF k \in OverridesOf(overrides, id)
                    THEN [overrides[k] EXCEPT
                            !.amount = IF old_amount # amount THEN amount ELSE @,
                            !.card_type = IF old_card_type # card_type THEN card_type ELSE @]
                    ELSE overrides[k]]
            /\ last' = Replied("update", TRUE, 0, id, 0, card_type)
            /\ UNCHANGED <<nextOverridePk, plans>>

\* credit_default_list, action update: the form saves the template, then
\* the snapshots of the current and later months take the changed values
CreditDefaultUpdate ==
    \E id \in DOMAIN templates, amount \in TemplateAmounts, card_type \in card_info :
        LET old_amount == templates[id].amount
            old_card_type == templates[id].card_type
            future_overrides ==
                {k \in OverridesOf(overrides, id) :
                    overrides[k].year_month >= current_year_month(today)}
        IN  /\ templates' = [templates EXCEPT ![id].amount = amount,
                                              ![id].card_type = card_type]
            /\ overrides' =
                 [k \in DOMAIN overrides |->
                    IF k \in future_overrides
                    THEN [overrides[k] EXCEPT
                            !.amount = IF old_amount # amount THEN amount ELSE @,
                            !.card_type = IF old_card_type # card_type THEN card_type ELSE @]
                    ELSE overrides[k]]
            /\ last' = Replied("update", TRUE, 0, id, 0, card_type)
            /\ UNCHANGED <<nextOverridePk, plans>>

\* credit_default_delete: the template is deactivated, nothing else
CreditDefaultDelete ==
    \E pk \in DOMAIN templates :
        /\ templates' = [templates EXCEPT ![pk].is_active = FALSE]
        /\ last' = Replied("credit_default_delete", TRUE, 0, pk, 0, "")
        /\ UNCHANGED <<overrides, nextOverridePk, plans>>

\* the registry, one purchase on the list and one template
SnapCards == (ViewCard :> PolicyDay(5)) @@ (OtherCard :> PolicyEndOfMonth)

InitSnap ==
    /\ cards = SnapCards
    /\ LET r == CreateResult(EmptyWorld, ViewCard, 3000, <<2025, 10, 10>>, FALSE, FALSE)
       IN  /\ estimates = r.w.estimates
           /\ nextPk = r.w.nextPk
           /\ nextGroup = r.w.nextGroup
    /\ requests = 0
    /\ last = Replied("init", TRUE, 0, 0, 0, "")
    /\ probe = NoProbe
    /\ today \in {<<2025, 10, 14>>, <<2025, 11, 3>>}
    /\ \E payment_day \in {4, 24} :
        templates = (1 :> [card_type |-> ViewCard, amount |-> 1500,
                           payment_day |-> payment_day, is_active |-> TRUE,
                           apply_odd_months_only |-> FALSE])
    /\ overrides = <<>>
    /\ nextOverridePk = 1
    /\ plans = <<>>
    /\ renders = [p \in Workers |-> Idle]

\* one request at a time: a server with a single worker
NextSnap ==
    \/ /\ \/ ListLoad(1)
          \/ ListGet(1)
          \/ ListEditDefault(1)
          \/ ListDeleteDefaultForMonth(1)
          \/ ListReflectCard(1)
          \/ ListReflect(1)
       /\ UNCHANGED <<cards, estimates, nextPk, nextGroup, probe, today>>
    \/ /\ renders[1].pc = "idle"
       /\ \/ SnapRequest(DeleteSingle)
          \/ SnapRequest(DeleteAll)
          \/ SnapRequest(CreditDefaultUpdate)
          \/ SnapRequest(CreditDefaultDelete)
       /\ UNCHANGED <<cards, estimates, nextPk, nextGroup, probe, today>>

SpecSnap == InitSnap /\ [][NextSnap]_vars

\* several workers: requests overlap between their read and their writes
NextRace ==
    \/ \E p \in Workers :
        /\ \/ ListLoad(p)
           \/ ListGet(p)
           \/ ListDeleteDefaultForMonth(p)
        /\ UNCHANGED <<cards, estimates, nextPk, nextGroup, probe, today>>
    \/ /\ SnapRequest(CreditDefaultUpdate)
       /\ UNCHANGED <<cards, estimates, nextPk, nextGroup, probe, today>>

SpecRace == InitSnap /\ [][NextRace]_vars

-----------------------------------------------------------------------------
(* Properties of the recurring charges (checked under SpecSnap, the one on *)
(* overlapping requests under SpecRace)                                    *)

\* worker p ends a GET of the purchase list in this step
RenderStep(p) ==
    /\ renders[p].pc = "loaded"
    /\ renders'[p].pc = "idle"
    /\ last'.op = "render"

\* C13: a render creates the snapshot of a (template, usage month) pair it
\* needs with the template's amount and card as they are at that instant and
\* the split flag off, and it leaves every snapshot that already exists
\* exactly as stored, whatever the template says by now and whatever the
\* user has edited: rendering again changes nothing.
C13_MaterializeOnce ==
    [][RenderStep(1) =>
        /\ \A k \in DOMAIN overrides :
              k \in DOMAIN overrides' /\ overrides'[k] = overrides[k]
        /\ \A k \in DOMAIN overrides' \ DOMAIN overrides :
              /\ overrides'[k].amount = templates[overrides'[k].default].amount
              /\ overrides'[k].card_type = templates[overrides'[k].default].card_type
              /\ ~overrides'[k].is_split_payment
        /\ \A k, j \in DOMAIN overrides' :
              (/\ overrides'[k].default = overrides'[j].default
               /\ overrides'[k].year_month = overrides'[j].year_month) => k = j]_vars

\* a render has ended with a snapshot the user has edited and a snapshot
\* created before the template's amount changed, both as they were stored
C13_Witness ==
    /\ last.op = "render"
    /\ last.ok
    /\ \E k, j \in DOMAIN overrides :
          /\ overrides[k].amount \in OverrideAmounts
          /\ overrides[j].amount \notin OverrideAmounts \cup {0}
          /\ overrides[j].amount # templates[overrides[j].default].amount
          /\ templates[overrides[j].default].is_active

\* credit_default_list's update has run in this step
UpdateStep ==
    /\ requests' = requests + 1
    /\ last'.op = "update"

\* the day a snapshot is charged: the template's payment_day within the
\* snapshot's usage month
ChargeDate(o) ==
    <<ParseYear(o.year_month), ParseMonth(o.year_month),
      ClampDay(ParseYear(o.year_month), ParseMonth(o.year_month),
               templates[o.default].payment_day)>>

\* a snapshot that still holds its template's amount and card
Unmodified(o) ==
    /\ o.amount = templates[o.default].amount
    /\ o.card_type = templates[o.default].card_type

\* C14: when a template's amount or card is edited, of its snapshots that
\* still hold the template's prior values exactly those charged strictly
\* after today take the new values; a snapshot whose charge date has passed,
\* also one of the current month, keeps its card and amount.
C14_UpdateReachesFutureSnapshotsOnly ==
    [][UpdateStep =>
        \A k \in OverridesOf(overrides, last'.default) :
            /\ k \in DOMAIN overrides'
            /\ IF Unmodified(overrides[k]) /\ DateLess(today, ChargeDate(overrides[k]))
               THEN /\ overrides'[k].amount = templates'[last'.default].amount
                    /\ overrides'[k].card_type = templates'[last'.default].card_type
               ELSE /\ overrides'[k].amount = overrides[k].amount
                    /\ overrides'[k].card_type = overrides[k].card_type]_vars

\* C15: a template amount edit never changes the amount of a snapshot whose
\* amount already differs from the template's prior amount, future-dated or
\* not, while an unmodified future snapshot of the template takes the new
\* amount.
C15_UpdateKeepsEditedSnapshots ==
    [][UpdateStep =>
        \A k \in OverridesOf(overrides, last'.default) :
            /\ k \in DOMAIN overrides'
            /\ overrides[k].amount # templates[last'.default].amount
                  => overrides'[k].amount = overrides[k].amount
            /\ (/\ Unmodified(overrides[k])
                /\ DateLess(today, ChargeDate(overrides[k])))
                  => overrides'[k].amount = templates'[last'.default].amount]_vars

\* a single-month delete of a template's entry has run in this step
SingleDeleteStep ==
    /\ requests' = requests + 1
    /\ last'.op \in {"delete_default_for_month", "delete_single"}
    /\ last'.ok

\* the recurring entries a render started now would list
WouldList ==
    DefaultEntries(Loaded(overrides, templates, estimates, plans))

\* C16: after a template's entry is deleted for one usage month m, by either
\* single-month delete and whether or not a snapshot for m existed, the
\* template is still active, the snapshots of the other months are as they
\* were, and a render that follows does not list the template's entry for
\* m: it is not materialized again from the template.
C16_SingleMonthDeleteHides ==
    [][SingleDeleteStep =>
        /\ templates' = templates
        /\ \A k \in DOMAIN overrides :
              overrides[k].year_month # last'.year_month
                  => k \in DOMAIN overrides' /\ overrides'[k] = overrides[k]
        /\ \A e \in WouldList' :
              ~(e.default = last'.default /\ e.year_month = last'.year_month)]_vars

C18_ConcurrentFirstRender ==
    /\ (last.op = "render" => last.ok)
    /\ \A k, j \in DOMAIN overrides :
          (/\ overrides[k].default = overrides[j].default
           /\ overrides[k].year_month = overrides[j].year_month) => k = j

\* the total the aggregator shows for a card of a billing month: the manual
\* purchases billed that month plus the recurring entries listed under it,
\* split installments applied
AggregateTotal(billing_month, card_type) ==
    LET view == Loaded(overrides, templates, estimates, plans)
    IN  manual_total(view, billing_month, card_type)
        + default_total(view, billing_month, card_type)

\* the cards a reflect request has written: the posted card, or every card
\* of the month's section
Reflected ==
    IF last.op = "reflect_card" THEN {last.card_type}
    ELSE SummaryCards(Loaded(overrides, templates, estimates, plans), last.year_month)

\* C19: the reflect action for (billing month, card) writes into the monthly
\* plan, under the card's own line-item key, exactly the total the
\* aggregator computes for that (billing month, card), whatever totals the
\* client submitted.
C19_ReflectWritesAggregate ==
    (last.op \in {"reflect_card", "reflect"} /\ last.ok)
        => \A card_type \in Reflected :
              /\ last.year_month \in DOMAIN plans
              /\ PlanKey(card_type, "") \in DOMAIN plans[last.year_month]
              /\ plans[last.year_month][PlanKey(card_type, "")]
                    = AggregateTotal(last.year_month, card_type)

-----------------------------------------------------------------------------
(* The rendered summary *)

\* renders between edits and single-month deletes of the snapshots
NextSummary ==
    \/ /\ \/ ListLoad(1)
          \/ ListGet(1)
          \/ ListEditDefault(1)
       /\ UNCHANGED <<cards, estimates, nextPk, nextGroup, probe, today>>
    \/ /\ renders[1].pc = "idle"
       /\ SnapRequest(DeleteSingle)
       /\ UNCHANGED <<cards, estimates, nextPk, nextGroup, probe, today>>

SpecSummary == InitSnap /\ [][NextSummary]_vars

\* the billing months that have a section in the summary of a render
SummaryMonths(view) ==
    {e.billing_month : e \in DefaultEntries(view)}
    \cup {display_month(view.estimates[k]) :
             k \in {j \in DOMAIN view.estimates :
                      Shown(view.estimates[j], today) /\ ~view.estimates[j].is_bonus_payment}}

\* the entries a listed (usage month, template) pair has in the summary
PairEntries(view, v) ==
    {e \in DefaultEntries(view) : e.default = v[2] /\ e.year_month = v[1]}

\* in every group of the summary total = manual_total + default_total = the
\* sum of the amounts of the listed entries
TotalsAddUp(view) ==
    \A billing_month \in SummaryMonths(view) :
        \A card_type \in SummaryCards(view, billing_month) :
            /\ group_total(view, billing_month, card_type)
                  = manual_total(view, billing_month, card_type)
                      + default_total(view, billing_month, card_type)
            /\ group_total(view, billing_month, card_type)
                  = SumOf(group_entries(view, billing_month, card_type))

\* first: the first installment's billing month; the two entries of a split
\* snapshot, the second a month later
TwoEntries(es, first, amount) ==
    \E e1 \in es, e2 \in es :
        /\ es = {e1, e2} /\ e1 # e2
        /\ e1.billing_month = first
        /\ e2.billing_month = AddMonths(first, 1)
        /\ e1.amount + e2.amount = amount

-----------------------------------------------------------------------------
(* Two templates: edits of snapshots and of templates *)

InitTemplates ==
    /\ cards = SnapCards
    /\ LET r == CreateResult(EmptyWorld, ViewCard, 3000, <<2025, 10, 10>>, FALSE, FALSE)
       IN  /\ estimates = r.w.estimates
           /\ nextPk = r.w.nextPk
           /\ nextGroup = r.w.nextGroup
    /\ requests = 0
    /\ last = Replied("init", TRUE, 0, 0, 0, "")
    /\ probe = NoProbe
    /\ today = <<2025, 11, 3>>
    /\ templates = (1 :> [card_type |-> ViewCard, amount |-> 1500,
                          payment_day |-> 24, is_active |-> TRUE,
                          apply_odd_months_only |-> FALSE])
                   @@ (2 :> [card_type |-> ViewCard, amount |-> 1500,
                             payment_day |-> 4, is_active |-> TRUE,
                             apply_odd_months_only |-> FALSE])
    /\ overrides = <<>>
    /\ nextOverridePk = 1
    /\ plans = <<>>
    /\ renders = [p \in Workers |-> Idle]

NextTemplates ==
    \/ /\ \/ ListLoad(1)
          \/ ListGet(1)
          \/ ListEditDefault(1)
       /\ UNCHANGED <<cards, estimates, nextPk, nextGroup, probe, today>>
    \/ /\ renders[1].pc = "idle"
       /\ SnapRequest(CreditDefaultUpdate)
       /\ UNCHANGED <<cards, estimates, nextPk, nextGroup, probe, today>>

SpecTemplates == InitTemplates /\ [][NextTemplates]_vars

\* C29: a template edit changes at most the amount and the card of that
\* template's own snapshots: it changes no snapshot's split flag or
\* purchase-date override, creates and deletes no snapshot, touches no
\* snapshot of another template and none whose usage month is before the
\* current month.
C29_UpdateFrame ==
    [][UpdateStep =>
        /\ DOMAIN overrides' = DOMAIN overrides
        /\ nextOverridePk' = nextOverridePk
        /\ \A k \in DOMAIN overrides :
              /\ overrides'[k] = [overrides[k] EXCEPT !.amount = overrides'[k].amount,
                                                      !.card_type = overrides'[k].card_type]
              /\ (\/ overrides[k].default # last'.default
                  \/ overrides[k].year_month < current_year_month(today))
                    => overrides'[k] = overrides[k]]_vars

\* an update gave 2000 to a snapshot of template 1 that carries a split flag
\* and a purchase-date override, beside a snapshot of template 1 of a month
\* before the current one and a snapshot of template 2
C29_Witness ==
    /\ last.op = "update" /\ last.default = 1
    /\ \E k \in DOMAIN overrides :
          /\ overrides[k].default = 1
          /\ overrides[k].amount = 2000
          /\ overrides[k].is_split_payment
          /\ overrides[k].purchase_date_override = <<2025, 10, 20>>
    /\ \E k \in DOMAIN overrides :
          /\ overrides[k].default = 1
          /\ overrides[k].year_month < current_year_month(today)
          /\ overrides[k].amount = 1500
    /\ \E k \in DOMAIN overrides :
          overrides[k].default = 2 /\ overrides[k].amount = 1500

-----------------------------------------------------------------------------
(* Further properties of the pure functions (checked under SpecPure) *)

\* datetime.date(year, month, day) accepts the triple
IsCalendarDate(d) ==
    /\ d[2] \in 1..12
    /\ d[3] \in 1..DaysInMonth(d[1], d[2])

\* C21: whenever a card's closing day n (1..31) is applied to a month, the
\* day used is min(n, days of that month), so the closing date computed for
\* a usage month is a valid calendar date for every n and every month.
C21_ClosingDateIsClamped ==
    probe.fn = "closing_date" =>
        /\ IsCalendarDate(probe.out)
        /\ IsDayOfMonthCard(probe.card_type) =>
              LET following == AddMonths(probe.usage_month, 1)
              IN  probe.out[3] = ClampDay(ParseYear(following), ParseMonth(following),
                                          cards[probe.card_type].closing_day)

-----------------------------------------------------------------------------
(* Further properties of the purchase requests (checked under Spec) *)

\* a delete request addressed to one installment of a stored split pair
DeletePairStep ==
    /\ requests' = requests + 1
    /\ last'.op = "delete" /\ last'.ok
    /\ estimates[last'.pk].is_split_payment
    /\ \E a \in last'.pre_pks, b \in last'.pre_pks :
          IsPair(a, b) /\ last'.pk \in {a, b}

\* C22: deleting either installment of a split pair removes every row carrying
\* the pair's split group and leaves every other stored purchase unchanged.
C22_DeleteRemovesPair ==
    [][DeletePairStep =>
          estimates' = [k \in Rows \ GroupPks(World, last'.pre_group) |-> estimates[k]]]_vars

\* the second installment of a pair was deleted while another purchase was stored
C22_Witness ==
    /\ last.op = "delete" /\ last.ok
    /\ last.pre_part = 2
    /\ Cardinality(last.pre_pks) = 2
    /\ last.pre_pks \cap Rows = {}
    /\ Rows # {}

\* C23: in every state reached by create and edit requests (switches between
\* split, bonus and normal payment included) no stored purchase is both a
\* split payment and a bonus payment.
C23_SplitExcludesBonus ==
    \A k \in Rows : ~(estimates[k].is_split_payment /\ estimates[k].is_bonus_payment)

\* an installment of a split pair was edited into a bonus payment
C23_Witness ==
    /\ EditedPair
    /\ last.pk \in Rows
    /\ estimates[last.pk].is_bonus_payment
    /\ ~estimates[last.pk].is_split_payment

\* an accepted edit addressed to a split installment whose sibling is gone:
\* the addressed row was the only row of its split group
LoneInstallmentEdited ==
    /\ last.op = "edit" /\ last.ok
    /\ last.pre_part \in {1, 2}
    /\ last.pre_pks = {last.pk}

\* C24: after an accepted edit of a split installment whose sibling no longer
\* exists, the row is stored as a single non-split record: not a split
\* payment, part and group cleared.
C24_LoneInstallmentBecomesSingle ==
    LoneInstallmentEdited =>
        /\ last.pk \in Rows
        /\ ~estimates[last.pk].is_split_payment
        /\ estimates[last.pk].split_payment_part = 0
        /\ estimates[last.pk].split_payment_group = 0

\* an edit or delete request whose pk resolves to no stored purchase
MissingPkStep ==
    /\ requests' = requests + 1
    /\ last'.op \in {"edit", "delete"}
    /\ last'.pk \notin Rows

\* C25: an edit or a delete addressed to an id that resolves to no stored
\* purchase is answered "not found" (neither a server error nor a success)
\* and changes no stored record.
C25_MissingIdIsNotFound ==
    [][MissingPkStep =>
          /\ ~last'.ok
          /\ last'.status = "not_found"
          /\ estimates' = estimates]_vars

\* C28: in every reachable state the two installments of a split pair carry
\* the same usage month, the same card key and the same purchase date (an edit
\* of an installment that submits another card key is rejected).
C28_PairSharesKeyFields ==
    \A a \in Rows, b \in Rows :
        (IsPair(a, b) /\ estimates[a].is_split_payment /\ estimates[b].is_split_payment) =>
            /\ estimates[a].year_month = estimates[b].year_month
            /\ estimates[a].card_type = estimates[b].card_type
            /\ estimates[a].purchase_date = estimates[b].purchase_date

-----------------------------------------------------------------------------
(* Business-day adjustment: the two loops of adjust_to_previous_business_day *)
(* and adjust_to_next_business_day, one loop iteration per step             *)

RECURSIVE DaysBeforeMonth(_, _)
DaysBeforeMonth(year, month) ==
    IF month = 1 THEN 0
    ELSE DaysBeforeMonth(year, month - 1) + DaysInMonth(year, month - 1)

\* date.toordinal(): 0001-01-01 is day 1
Toordinal(d) ==
    LET y == d[1] - 1
    IN  y * 365 + (y \div 4) - (y \div 100) + (y \div 400)
          + DaysBeforeMonth(d[1], d[2]) + d[3]

\* date.weekday(): Monday is 0, Saturday 5, Sunday 6
Weekday(d) == (Toordinal(d) + 6) % 7

\* target_date + timedelta(days=1)
NextDay(d) ==
    IF d[3] < DaysInMonth(d[1], d[2]) THEN <<d[1], d[2], d[3] + 1>>
    ELSE IF d[2] < 12 THEN <<d[1], d[2] + 1, 1>>
    ELSE <<d[1] + 1, 1, 1>>

\* target_date - timedelta(days=1)
PrevDay(d) ==
    IF d[3] > 1 THEN <<d[1], d[2], d[3] - 1>>
    ELSE IF d[2] > 1 THEN <<d[1], d[2] - 1, DaysInMonth(d[1], d[2] - 1)>>
    ELSE <<d[1] - 1, 12, 31>>

\* a loop condition that looks at the weekday only
IsWeekend(d, holidays) == Weekday(d) >= 5

\* the loop condition: a Saturday, a Sunday or a holiday of the calendar
NeedsAdjust(d, holidays) == Weekday(d) >= 5 \/ d \in holidays

\* the days the holiday calendar may mark, around the turn of the year
HolidayCandidates ==
    {<<2025, 12, 29>>, <<2025, 12, 31>>, <<2026, 1, 1>>, <<2026, 1, 2>>, <<2026, 1, 5>>}

\* input dates: Friday 2025-12-26 to Tuesday 2026-01-06
AdjustDates ==
    {<<2025, 12, dd>> : dd \in 26..31} \cup {<<2026, 1, dd>> : dd \in 1..6}

AdjustFunctions == {"adjust_to_previous_business_day", "adjust_to_next_business_day"}

AdjustCall ==
    /\ probe = NoProbe
    /\ \E fn \in AdjustFunctions, holidays \in SUBSET HolidayCandidates,
          target_date \in AdjustDates :
          probe' = [fn |-> fn, holidays |-> holidays, input |-> target_date,
                    target_date |-> target_date, pc |-> "while"]

AdjustPreviousStep ==
    /\ probe.fn = "adjust_to_previous_business_day"
    /\ probe.pc = "while"
    /\ NeedsAdjust(probe.target_date, probe.holidays)
    /\ probe' = [probe EXCEPT !.target_date = PrevDay(@)]

AdjustNextStep ==
    /\ probe.fn = "adjust_to_next_business_day"
    /\ probe.pc = "while"
    /\ NeedsAdjust(probe.target_date, probe.holidays)
    /\ probe' = [probe EXCEPT !.target_date = NextDay(@)]

AdjustReturn ==
    /\ probe.fn \in AdjustFunctions
    /\ probe.pc = "while"
    /\ ~NeedsAdjust(probe.target_date, probe.holidays)
    /\ probe' = [probe EXCEPT !.pc = "return"]

NextDays ==
    \/ AdjustCall /\ UNCHANGED <<cards, estimates, nextPk, nextGroup, requests, last>> /\ UNCHANGED snapVars
    \/ AdjustPreviousStep /\ UNCHANGED <<cards, estimates, nextPk, nextGroup, requests, last>> /\ UNCHANGED snapVars
    \/ AdjustNextStep /\ UNCHANGED <<cards, estimates, nextPk, nextGroup, requests, last>> /\ UNCHANGED snapVars
    \/ AdjustReturn /\ UNCHANGED <<cards, estimates, nextPk, nextGroup, requests, last>> /\ UNCHANGED snapVars

\* a call runs its loop to the end: the interpreter keeps executing it
SpecDays == InitPure /\ [][NextDays]_vars /\ WF_vars(NextDays)

AdjustRunning == probe.fn \in AdjustFunctions /\ probe.pc = "while"
AdjustReturned == probe.fn \in AdjustFunctions /\ probe.pc = "return"

\* the returned date is the first business day at or after (next) or at or
\* before (previous) the input
FirstBusinessDay ==
    LET out == probe.target_date
        lo == IF probe.fn = "adjust_to_next_business_day" THEN probe.input ELSE out
        hi == IF probe.fn = "adjust_to_next_business_day" THEN out ELSE probe.input
    IN  /\ Weekday(out) \notin {5, 6}
        /\ out \notin probe.holidays
        /\ Toordinal(lo) <= Toordinal(hi)
        /\ \A d \in AdjustDates :
              (Toordinal(lo) <= Toordinal(d) /\ Toordinal(d) <= Toordinal(hi) /\ d # out)
                  => (Weekday(d) \in {5, 6} \/ d \in probe.holidays)
        /\ (Weekday(probe.input) \notin {5, 6} /\ probe.input \notin probe.holidays)
              => out = probe.input

\* C26: adjust_to_next_business_day (resp. adjust_to_previous_business_day)
\* terminates for every input date and returns the first date at or after
\* (resp. at or before) the input that is neither a Saturday/Sunday nor a
\* holiday; an input that is already a business day is returned unchanged.
C26_BusinessDayAdjust ==
    /\ [](AdjustReturned => FirstBusinessDay)
    /\ (AdjustRunning ~> AdjustReturned)

\* Wednesday 2025-12-31 with the following Thursday, Friday and Monday marked
\* as holidays is moved over them and the weekend to Tuesday 2026-01-06
C26_Witness ==
    /\ AdjustReturned
    /\ probe.fn = "adjust_to_next_business_day"
    /\ probe.input = <<2025, 12, 31>>
    /\ probe.holidays = {<<2025, 12, 31>>, <<2026, 1, 1>>, <<2026, 1, 2>>, <<2026, 1, 5>>}
    /\ probe.target_date = <<2026, 1, 6>>

-----------------------------------------------------------------------------
(* The two lists of purchases: upcoming estimates and past transactions, *)
(* rendered on a current date that advances day by day                   *)

MaxViewRequests == 2

\* (current_date + relativedelta(months=3)).strftime('%Y-%m')
future_limit_year_month(td) == AddMonths(current_year_month(td), 3)

\* past_transactions_list: the estimate is collected into
\* past_credit_estimates and passes the second check of the grouping loop
PastListed(est, td) ==
    LET collected ==
            IF est.is_bonus_payment /\ est.due_date # NoDate
            THEN DateLess(est.due_date, td)
            ELSE LET billing_month == IF est.billing_month # 0 THEN est.billing_month
                                      ELSE est.year_month
                 IN  /\ billing_month # 0
                     /\ billing_month <= future_limit_year_month(td)
                     /\ DateLess(closing_date(est.year_month, est.card_type), td)
        grouped ==
            IF ~est.is_bonus_payment
            THEN DateLess(closing_date(est.year_month, est.card_type), td)
            ELSE est.due_date = NoDate \/ ~DateLess(td, est.due_date)
    IN  collected /\ grouped

\* the current dates of the renders: the days around each closing date and
\* around the winter bonus payment date
ViewDates ==
    {<<2025, 11, 5>>, <<2025, 11, 6>>, <<2025, 11, 30>>, <<2025, 12, 1>>,
     <<2026, 1, 3>>, <<2026, 1, 4>>, <<2026, 1, 5>>, <<2026, 1, 6>>}

InitViews ==
    /\ cards \in PurchaseCardConfigs
    /\ estimates = [k \in {} |-> NewInstance]
    /\ nextPk = 1
    /\ nextGroup = 1
    /\ requests = 0
    /\ last = Rejected("init", "none", 0)
    /\ probe = NoProbe
    /\ templates = <<>>
    /\ overrides = <<>>
    /\ nextOverridePk = 1
    /\ plans = <<>>
    /\ renders = [p \in Workers |-> Idle]
    /\ today \in {d \in ViewDates : PrevDay(d) \notin ViewDates}

ViewRequest(A) ==
    /\ probe = NoProbe
    /\ requests < MaxViewRequests
    /\ requests' = requests + 1
    /\ A
    /\ UNCHANGED snapVars

\* midnight: datetime.now() returns the next day
Tick ==
    /\ probe = NoProbe
    /\ NextDay(today) \in ViewDates
    /\ today' = NextDay(today)
    /\ UNCHANGED <<cards, estimates, nextPk, nextGroup, requests, last, probe,
                   templates, overrides, nextOverridePk, plans, renders>>

\* GET of credit_estimate_list and of past_transactions_list on the same day
RenderLists ==
    /\ probe = NoProbe
    /\ probe' = [fn |-> "lists", rows |-> Rows,
                 upcoming |-> {k \in Rows : Shown(estimates[k], today)},
                 past |-> {k \in Rows : PastListed(estimates[k], today)}]
    /\ UNCHANGED <<cards, estimates, nextPk, nextGroup, requests, last>>
    /\ UNCHANGED snapVars

NextViews ==
    \/ ViewRequest(CreateEstimate)
    \/ ViewRequest(EditEstimate)
    \/ Tick
    \/ RenderLists

SpecViews == InitViews /\ [][NextViews]_vars

\* C27: on every current date each stored purchase is listed in exactly one
\* of the upcoming-estimates view and the past-transactions view (a non-bonus
\* purchase is past from the day after its closing date, a bonus purchase
\* from its payment date); none is listed in neither view or in both.
C27_ExactlyOneView ==
    probe.fn = "lists" =>
        /\ probe.upcoming \cap probe.past = {}
        /\ probe.upcoming \cup probe.past = probe.rows

====
